---- MODULE Spec2Model ----
(***************************************************************************)
(* A model of telejob's log dispatcher (pkg/job/logs.go) and of the job    *)
(* life cycle kept by the controller (pkg/job/job.go and the controller    *)
(* source).                                                                *)
(*                                                                         *)
(* Two state machines share the module.  SpecLog is one dispatcher with    *)
(* its producer and its readers; SpecJob is the controller's jobs with     *)
(* their child processes and reapers.  Each specification leaves the other *)
(* machine's variables at their initial values.                            *)
(***************************************************************************)
EXTENDS Integers, Sequences, FiniteSets, TLC

(***************************************************************************)
(* Bounds of the model.                                                    *)
(***************************************************************************)
MaxWrites == 2      \* Write calls the producer makes before it closes
MaxChunk == 2       \* longest chunk of one Write
MaxBuf == 2         \* longest caller buffer p handed to Read
MaxJobs == 2        \* job ids the controller hands out

(***************************************************************************)
(* Program constants.                                                      *)
(***************************************************************************)
SlotCap == 1        \* make(logResponseCh, 1)
NotTerminated == -2
TerminatedBySignal == -1

\* The readers attached to the one dispatcher.  Readers meet only in the
\* dispatcher's followers set, so two of them show every interaction.
Readers == {"r1", "r2"}

Min(a, b) == IF a <= b THEN a ELSE b

\* s is a prefix of t
IsPrefix(s, t) == Len(s) <= Len(t) /\ s = SubSeq(t, 1, Len(s))

VARIABLES
    \* logDispatcher
    fullLog,        \* l.fullLog, a sequence of bytes
    followers,      \* l.followers, the set of response slots (one per reader)
    inputOpen,      \* l.inputCh # nil
    dispState,      \* the dispatcher goroutine: "run", "blocked" (in a send
                    \* on a full slot) or "panic"
    \* the producer: channelWriter.Write and closeInput
    prodPc,         \* "idle" | "sending" | "closed"
    prodChunk,      \* the chunk Write is handing over
    nWrites,        \* Write calls made
    written,        \* every byte handed to Write so far
    \* logReader, per reader
    rdPc,           \* "none" | "idle" | "sendReq" | "select" | "sendDone"
    startIdx,       \* lr.startIdx
    respCh,         \* the buffer of lr.respCh
    respClosed,     \* lr.respCh has been closed
    respNil,        \* lr.respCh == nil
    ctxDone,        \* lr.ctx has been cancelled
    firedWaiting,   \* the Read in progress was waiting in its select, its
                    \* slot empty and open, when the cancel signal fired
    \* what the reader's caller has seen
    got,            \* the bytes Read calls have returned, concatenated
    ret,            \* what the last Read returned: [err, at]
    late            \* newReader ran after the producer had closed

dispVars == <<fullLog, followers, inputOpen, dispState>>
prodVars == <<prodPc, prodChunk, nWrites, written>>
slotVars == <<respCh, respClosed>>
readVars == <<startIdx, respNil, got, ret>>

ctxVars == <<ctxDone, firedWaiting>>

logVars == <<dispVars, prodVars, slotVars, readVars, rdPc, ctxVars, late>>

(***************************************************************************)
(* The state of the controller, of its jobs and of their reapers.          *)
(***************************************************************************)
JobIds == 1..MaxJobs

\* The callers' identities (certificate common names).
Owners == {"alice", "bob"}

\* The owners that start jobs.  Every owner calls Stop and Status, so a job
\* meets both its owner and a stranger; which of the two names owns the jobs
\* makes no difference to the code, which only compares the strings.
Starters == {"alice"}

\* The goroutines that call Start, Stop and Status.
Threads == {"t1", "t2"}

\* The exit statuses a child ends with when it exits by itself.
ExitCodes == {0, 1}

VARIABLES
    \* Controller
    maxID,          \* c.maxID
    newJobFailed,   \* the Starts whose newJob returned an error, so far
    shutDown,       \* c.shutDown
    cMutex,         \* c.mutex: "free", or "StopAll" while StopAll holds it
    wg,             \* the counter of c.wg
    jobs,           \* the keys of c.jobs
    parentDir,      \* the parent cgroup directory exists
    cgroupDirs,     \* the ids whose job cgroup directory exists
    \* job, per id
    jobOwner,       \* j.owner
    status,         \* j.status: [Running, ExitCode, Started, Stopped]
    jMutex,         \* j.mutex: "free", or "reaper" while job.wait holds it
    child,          \* the child process: "none" | "running" | "exited" | "killed"
    childCode,      \* the exit status of a child that exited by itself
    \* the reaper goroutine of a job: job.wait
    reaperPc,       \* "none" | "wait" | "lock" | "cleanup" | "done"
    waitErr,        \* what cmd.Wait returned: "nil" | "ExitError" | "other"
    \* the callers
    thPc,           \* "idle" | "startChecked" | "startNewJob" | "startAdded"
                    \*   | "stopGot" | "statusGot"
    thArg,          \* the owner argument of the call in progress
    thJob,          \* the job the call in progress works on
    \* StopAll
    saPc,           \* "idle" | "loop"
    saTodo,         \* the jobs the range over c.jobs has yet to visit
    saErr,          \* len(errs) > 0
    \* what the step just taken returned to its caller, if it returned:
    \* [op, err, id, st]
    returned,
    \* time.Now()
    clock

ctlVars == <<maxID, newJobFailed, shutDown, cMutex, wg, jobs, parentDir,
            cgroupDirs>>
jobVars == <<jobOwner, status, jMutex, child, childCode>>
reaperVars == <<reaperPc, waitErr>>
thVars == <<thPc, thArg, thJob>>
saVars == <<saPc, saTodo, saErr>>

controllerVars == <<ctlVars, jobVars, reaperVars, thVars, saVars, returned,
                    clock>>

\* The gRPC server: the last call that reached it, with the peer it came
\* from, what the interceptor did with it and the code it was answered with.
VARIABLE rpc
svcVars == <<rpc>>

\* The last call of newStartedCmd: its inputs, the limit files it wrote, and
\* whether the job cgroup directory exists and the command runs afterwards.
VARIABLE cg
fsVars == <<cg>>

\* One job's reaper, job.wait, step by step: where it is, the child, what
\* it has done so far and the job cgroup directory.
VARIABLE rp
reapVars == <<rp>>

\* One job's status and the values that share memory with it: the arrays
\* behind the argument slices, the slice of the job's status, the status
\* values callers hold and what each Status call returned.
VARIABLE sn
snapVars == <<sn>>

vars == <<logVars, controllerVars, svcVars, fsVars, reapVars, snapVars>>

NoRet == [err |-> "none", at |-> 0]

\* The error a Read returned ("nil", "EOF" or "ctx") and the line of its
\* return statement.  The bytes it returned are appended to got.
Return(err, at) == [err |-> err, at |-> at]

\* lr.ctx.Err() != nil; the Done channel of lr.ctx is then closed
CtxErr(r) == ctxDone[r]

----------------------------------------------------------------------------
(***************************************************************************)
(* Pure helpers of logs.go.                                                *)
(***************************************************************************)

\* l.fullLog[req.startIdx:]
HistoricalSliceWhole(log, idx) == log
HistoricalSlice(log, idx) == SubSeq(log, idx + 1, Len(log))

\* The bytes copy(p, b) puts into p, with len(p) = plen.
Copy(plen, b) == SubSeq(b, 1, Min(plen, Len(b)))

\* n := copy(p, b)
CopyCountWhole(plen, b) == Len(b)
CopyCount(plen, b) == Min(plen, Len(b))

\* lr.startIdx += uint64(n)
AdvanceIdxAssign(idx, n) == n
AdvanceIdx(idx, n) == idx + n

\* lr.respCh = nil
MarkEOFForgotten(nils, r) == nils
MarkEOF(nils, r) == [nils EXCEPT ![r] = TRUE]

\* The switch of handleRequest: "data", "follow" or "eof".
RequestCaseInverted(idx, log, open) ==
    IF idx < Len(log) THEN "data" ELSE IF ~open THEN "follow" ELSE "eof"
RequestCase(idx, log, open) ==
    IF idx < Len(log) THEN "data" ELSE IF open THEN "follow" ELSE "eof"

\* clear(l.followers) at the end of handleInput
FollowersAfterInputKept(fs) == fs
FollowersAfterInput(fs) == {}

FollowersAfterDoneKept(fs, r) == fs

\* delete(l.followers, respCh) in the doneCh case
FollowersAfterDone(fs, r) == fs \ {r}

\* The chunk of the next Write: n fresh bytes, labelled by their position in
\* the producer's output so that loss, duplication and reordering show.
NextChunk(n) == [i \in 1..n |-> Len(written) + i]

\* follower <- b (and respCh <- b) for every slot in the set to: the new
\* buffers, given that no slot of the set is full or closed.
SendAll(to, b) ==
    [r \in Readers |-> IF r \in to THEN Append(respCh[r], b) ELSE respCh[r]]

CloseAllForgotten(cl) == respClosed

\* close(follower) for every slot in the set
CloseAll(cl) == [r \in Readers |-> respClosed[r] \/ r \in cl]

\* The dispatcher goroutine after it sends to every slot in sendTo and
\* closes every slot in closeSet: a send on a closed slot or a second close
\* panics, a send on a full slot blocks.
DispAfter(sendTo, closeSet) ==
    IF \/ \E r \in sendTo : respClosed[r]
       \/ \E r \in closeSet : respClosed[r]
    THEN "panic"
    ELSE IF \E r \in sendTo : Len(respCh[r]) >= SlotCap
    THEN "blocked"
    ELSE "run"

----------------------------------------------------------------------------
LogInit ==
    /\ fullLog = <<>>
    /\ followers = {}
    /\ inputOpen = TRUE
    /\ dispState = "run"
    /\ prodPc = "idle"
    /\ prodChunk = <<>>
    /\ nWrites = 0
    /\ written = <<>>
    /\ rdPc = [r \in Readers |-> "none"]
    /\ startIdx = [r \in Readers |-> 0]
    /\ respCh = [r \in Readers |-> <<>>]
    /\ respClosed = [r \in Readers |-> FALSE]
    /\ respNil = [r \in Readers |-> FALSE]
    /\ ctxDone = [r \in Readers |-> FALSE]
    /\ firedWaiting = [r \in Readers |-> FALSE]
    /\ got = [r \in Readers |-> <<>>]
    /\ ret = [r \in Readers |-> NoRet]
    /\ late = [r \in Readers |-> FALSE]

(***************************************************************************)
(* The producer.                                                           *)
(***************************************************************************)

\* channelWriter.Write(b) with len(b) = n >= 1: w <- slices.Clone(b) blocks
\* until the dispatcher receives.
ProducerWrite(n) ==
    /\ prodPc = "idle"
    /\ nWrites < MaxWrites
    /\ prodPc' = "sending"
    /\ prodChunk' = NextChunk(n)
    /\ written' = written \o NextChunk(n)
    /\ nWrites' = nWrites + 1
    /\ UNCHANGED <<dispVars, slotVars, readVars, rdPc, ctxVars, late>>
    /\ UNCHANGED <<controllerVars, svcVars, fsVars, reapVars, snapVars>>

\* closeInput: close(l.inputCh), after the last Write has returned.
CloseInput ==
    /\ prodPc = "idle"
    /\ prodPc' = "closed"
    /\ UNCHANGED <<dispVars, prodChunk, nWrites, written, slotVars, readVars,
                   rdPc, ctxVars, late>>
    /\ UNCHANGED <<controllerVars, svcVars, fsVars, reapVars, snapVars>>

(***************************************************************************)
(* The dispatcher's event loop: one action per case of the select.         *)
(***************************************************************************)

\* case b, ok := <-l.inputCh with ok: handleInput(b)
HandleInput ==
    /\ dispState = "run"
    /\ inputOpen
    /\ prodPc = "sending"
    /\ fullLog' = fullLog \o prodChunk
    /\ dispState' = DispAfter(followers, {})
    /\ respCh' = IF DispAfter(followers, {}) = "run"
                 THEN SendAll(followers, prodChunk)
                 ELSE respCh
    /\ followers' = FollowersAfterInput(followers)
    /\ prodPc' = "idle"
    /\ prodChunk' = <<>>
    /\ UNCHANGED <<inputOpen, nWrites, written, respClosed, readVars, rdPc,
                   ctxVars, late>>
    /\ UNCHANGED <<controllerVars, svcVars, fsVars, reapVars, snapVars>>

\* case b, ok := <-l.inputCh with !ok: handleInputClosed()
HandleInputClosed ==
    /\ dispState = "run"
    /\ inputOpen
    /\ prodPc = "closed"
    /\ inputOpen' = FALSE
    /\ dispState' = DispAfter({}, followers)
    /\ respClosed' = CloseAll(followers)
    /\ followers' = {}
    /\ UNCHANGED <<fullLog, prodVars, respCh, readVars, rdPc, ctxVars, late>>
    /\ UNCHANGED <<controllerVars, svcVars, fsVars, reapVars, snapVars>>

\* case req := <-l.reqCh: handleRequest(req), the rendezvous with reader
\* r's send on reqCh.
HandleRequest(r) ==
    /\ dispState = "run"
    /\ rdPc[r] = "sendReq"
    /\ rdPc' = [rdPc EXCEPT ![r] = "select"]
    /\ LET case == RequestCase(startIdx[r], fullLog, inputOpen)
       IN  IF case = "data"
           THEN /\ dispState' = DispAfter({r}, {})
                /\ respCh' = IF DispAfter({r}, {}) = "run"
                             THEN SendAll({r}, HistoricalSlice(fullLog, startIdx[r]))
                             ELSE respCh
                /\ UNCHANGED <<followers, respClosed>>
           ELSE IF case = "follow"
           THEN /\ followers' = followers \cup {r}
                /\ UNCHANGED <<dispState, respCh, respClosed>>
           ELSE /\ dispState' = DispAfter({}, {r})
                /\ respClosed' = CloseAll({r})
                /\ UNCHANGED <<followers, respCh>>
    /\ UNCHANGED <<fullLog, inputOpen, prodVars, readVars, ctxVars, late>>
    /\ UNCHANGED <<controllerVars, svcVars, fsVars, reapVars, snapVars>>

\* case respCh := <-l.doneCh, the rendezvous with reader r's send on doneCh;
\* the reader's Read then returns the context error.
HandleDone(r) ==
    /\ dispState = "run"
    /\ rdPc[r] = "sendDone"
    /\ rdPc' = [rdPc EXCEPT ![r] = "idle"]
    /\ ret' = [ret EXCEPT ![r] = Return("ctx", 178)]
    /\ IF r \in followers
       THEN /\ followers' = FollowersAfterDone(followers, r)
            /\ dispState' = DispAfter({}, {r})
            /\ respClosed' = CloseAll({r})
       ELSE UNCHANGED <<followers, dispState, respClosed>>
    /\ firedWaiting' = [firedWaiting EXCEPT ![r] = FALSE]
    /\ UNCHANGED <<fullLog, inputOpen, prodVars, respCh, startIdx, respNil,
                   got, ctxDone, late>>
    /\ UNCHANGED <<controllerVars, svcVars, fsVars, reapVars, snapVars>>

(***************************************************************************)
(* The readers.                                                            *)
(***************************************************************************)

\* newReader(ctx)
NewReader(r) ==
    /\ rdPc[r] = "none"
    /\ rdPc' = [rdPc EXCEPT ![r] = "idle"]
    /\ late' = [late EXCEPT ![r] = (prodPc = "closed")]
    /\ UNCHANGED <<dispVars, prodVars, slotVars, readVars, ctxVars>>
    /\ UNCHANGED <<controllerVars, svcVars, fsVars, reapVars, snapVars>>

\* The reader's context is cancelled by its owner, at any time after
\* newReader (a context cancelled earlier acts like one cancelled right after).
Cancel(r) ==
    /\ rdPc[r] # "none"
    /\ ~ctxDone[r]
    /\ ctxDone' = [ctxDone EXCEPT ![r] = TRUE]
    /\ firedWaiting' = [firedWaiting EXCEPT ![r] =
            rdPc[r] = "select" /\ respCh[r] = <<>> /\ ~respClosed[r]]
    /\ UNCHANGED <<dispVars, prodVars, slotVars, readVars, rdPc, late>>
    /\ UNCHANGED <<controllerVars, svcVars, fsVars, reapVars, snapVars>>

\* Read(p) up to its send on reqCh.
ReadBegin(r) ==
    /\ rdPc[r] = "idle"
    /\ IF CtxErr(r)
       THEN /\ ret' = [ret EXCEPT ![r] = Return("ctx", 168)]
            /\ UNCHANGED rdPc
       ELSE IF respNil[r]
       THEN /\ ret' = [ret EXCEPT ![r] = Return("EOF", 171)]
            /\ UNCHANGED rdPc
       ELSE /\ rdPc' = [rdPc EXCEPT ![r] = "sendReq"]
            /\ UNCHANGED ret
    /\ UNCHANGED <<dispVars, prodVars, slotVars, startIdx, respNil, got,
                   ctxVars, late>>
    /\ UNCHANGED <<controllerVars, svcVars, fsVars, reapVars, snapVars>>

\* The select of Read takes case <-lr.ctx.Done(): the reader goes on to send
\* its slot on doneCh.
ReadSelectDone(r) ==
    /\ rdPc[r] = "select"
    /\ CtxErr(r)
    /\ rdPc' = [rdPc EXCEPT ![r] = "sendDone"]
    /\ UNCHANGED <<dispVars, prodVars, slotVars, readVars, ctxVars, late>>
    /\ UNCHANGED <<controllerVars, svcVars, fsVars, reapVars, snapVars>>

\* The select of Read takes case b, ok := <-lr.respCh.  plen is len(p) of
\* this Read: the code first uses p in copy(p, b), so it is drawn here.
\* When the context is done as well, both cases of the select can proceed and
\* Go takes either: both ReadSelectDone and ReadSelectResp are enabled.
ReadSelectResp(r, plen) ==
    /\ rdPc[r] = "select"
    /\ respCh[r] # <<>> \/ respClosed[r]
    /\ rdPc' = [rdPc EXCEPT ![r] = "idle"]
    /\ IF respCh[r] # <<>>
       THEN LET b == Head(respCh[r])
            IN /\ respCh' = [respCh EXCEPT ![r] = Tail(respCh[r])]
               /\ startIdx' = [startIdx EXCEPT ![r] =
                                  AdvanceIdx(startIdx[r], CopyCount(plen, b))]
               /\ got' = [got EXCEPT ![r] = got[r] \o Copy(plen, b)]
               /\ ret' = [ret EXCEPT ![r] = Return("nil", 186)]
               /\ UNCHANGED respNil
       ELSE /\ respNil' = MarkEOF(respNil, r)
            /\ ret' = [ret EXCEPT ![r] = Return("EOF", 182)]
            /\ UNCHANGED <<respCh, startIdx, got>>
    /\ firedWaiting' = [firedWaiting EXCEPT ![r] = FALSE]
    /\ UNCHANGED <<dispVars, prodVars, respClosed, ctxDone, late>>
    /\ UNCHANGED <<controllerVars, svcVars, fsVars, reapVars, snapVars>>

LogNext ==
    \/ \E n \in 1..MaxChunk : ProducerWrite(n)
    \/ CloseInput
    \/ HandleInput
    \/ HandleInputClosed
    \/ \E r \in Readers : HandleRequest(r)
    \/ \E r \in Readers : HandleDone(r)
    \/ \E r \in Readers : NewReader(r)
    \/ \E r \in Readers : Cancel(r)
    \/ \E r \in Readers : ReadBegin(r)
    \/ \E r \in Readers : ReadSelectDone(r)
    \/ \E r \in Readers, plen \in 1..MaxBuf : ReadSelectResp(r, plen)

----------------------------------------------------------------------------
(***************************************************************************)
(* The controller, its jobs, their child processes and their reapers.      *)
(***************************************************************************)
\* The zero time.Time is 0; time.Now() is never zero and never goes back.
ZeroTime == 0
Now == clock + 1

\* Status{}
ZeroStatus == [Running |-> FALSE, ExitCode |-> 0, Started |-> ZeroTime,
               Stopped |-> ZeroTime]

\* No call returned in this step.
NoReturn == [op |-> "none", who |-> "-", cmd |-> "-", err |-> "nil", id |-> 0,
             st |-> ZeroStatus]

\* What Stop(who, id) or Status(who, id) returns.
RetTo(who, op, err, id, st) ==
    [op |-> op, who |-> who, cmd |-> "-", err |-> err, id |-> id, st |-> st]

\* What Start or StopAll returns.
Ret(op, err, id, st) == RetTo("-", op, err, id, st)

\* The commands: the empty one and one that is not.
EmptyCommand == ""
SomeCommand == "sleep"

\* What Start(owner, command) returns.
RetStart(command, err, id) ==
    [Ret("Start", err, id, ZeroStatus) EXCEPT !.cmd = command]

\* newJob: the Status of a job whose command has started
NewStatus(now) == [Running |-> TRUE, ExitCode |-> NotTerminated,
                   Started |-> now, Stopped |-> ZeroTime]

\* exitErr.ExitCode() of the *exec.ExitError cmd.Wait returns: the exit
\* status, or -1 for a child that a signal terminated
ExitErrorCode(end, code) == IF end = "killed" THEN -1 ELSE code

\* cmd.Wait(): nil for exit status 0, an *exec.ExitError for another exit
\* status or a signal; gotStatus is FALSE when the wait itself fails
WaitResult(end, code, gotStatus) ==
    IF ~gotStatus THEN "other"
    ELSE IF end = "exited" /\ code = 0 THEN "nil"
    ELSE "ExitError"

\* The status update of job.wait under j.mutex.
StatusAfterWait(st, werr, end, code, now) ==
    [st EXCEPT !.Running = FALSE,
               !.Stopped = now,
               !.ExitCode = IF werr = "nil" THEN 0
                            ELSE IF werr = "ExitError" THEN ExitErrorCode(end, code)
                            ELSE st.ExitCode]

GetErrAnyOwner(o, id) == IF id \notin jobs THEN "ErrJobNotFound" ELSE "nil"

GetErrOwnerFirst(o, id) ==
    IF id \in JobIds /\ jobOwner[id] # o THEN "ErrUnauthorized"
    ELSE IF id \notin jobs THEN "ErrJobNotFound"
    ELSE "nil"

\* Controller.get: the error of the lookup and of the ownership check
GetErr(o, id) ==
    IF id \notin jobs THEN "ErrJobNotFound"
    ELSE IF jobOwner[id] # o THEN "ErrUnauthorized"
    ELSE "nil"

ControllerInit ==
    /\ maxID = 0
    /\ newJobFailed = 0
    /\ shutDown = FALSE
    /\ cMutex = "free"
    /\ wg = 0
    /\ jobs = {}
    /\ parentDir = TRUE
    /\ cgroupDirs = {}
    /\ jobOwner = [id \in JobIds |-> "-"]
    /\ status = [id \in JobIds |-> ZeroStatus]
    /\ jMutex = [id \in JobIds |-> "free"]
    /\ child = [id \in JobIds |-> "none"]
    /\ childCode = [id \in JobIds |-> 0]
    /\ reaperPc = [id \in JobIds |-> "none"]
    /\ waitErr = [id \in JobIds |-> "-"]
    /\ thPc = [t \in Threads |-> "idle"]
    /\ thArg = [t \in Threads |-> "-"]
    /\ thJob = [t \in Threads |-> 0]
    /\ saPc = "idle"
    /\ saTodo = {}
    /\ saErr = FALSE
    /\ returned = NoReturn
    /\ clock = 0

(***************************************************************************)
(* Controller.Start                                                        *)
(***************************************************************************)

StartGuardErrShutdownFirst(command, sd) ==
    IF sd THEN "ErrShutdown"
    ELSE IF command = EmptyCommand THEN "ErrCommand"
    ELSE "nil"

\* The two checks at the head of Start, len(command) == 0 and then
\* c.isShutDown(): the error Start returns there, or nil when it goes on.
StartGuardErr(command, sd) ==
    IF command = EmptyCommand THEN "ErrCommand"
    ELSE IF sd THEN "ErrShutdown"
    ELSE "nil"

\* Start with an empty command.
StartEmpty(t) ==
    /\ thPc[t] = "idle"
    /\ returned' = RetStart(EmptyCommand,
                            StartGuardErr(EmptyCommand, shutDown), 0)
    /\ UNCHANGED <<ctlVars, jobVars, reaperVars, thVars, saVars, clock>>
    /\ UNCHANGED <<logVars, svcVars, fsVars, reapVars, snapVars>>

\* Start of a command by owner o, up to the return of c.isShutDown().
StartCheck(t, o) ==
    /\ thPc[t] = "idle"
    /\ cMutex = "free"
    /\ IF StartGuardErr(SomeCommand, shutDown) # "nil"
       THEN /\ returned' = RetStart(SomeCommand,
                                    StartGuardErr(SomeCommand, shutDown), 0)
            /\ UNCHANGED <<thPc, thArg>>
       ELSE /\ thPc' = [thPc EXCEPT ![t] = "startChecked"]
            /\ thArg' = [thArg EXCEPT ![t] = o]
            /\ returned' = NoReturn
    /\ UNCHANGED <<ctlVars, jobVars, reaperVars, thJob, saVars, clock>>
    /\ UNCHANGED <<logVars, svcVars, fsVars, reapVars, snapVars>>

NextIDStuck(m) == IF m = 0 THEN 1 ELSE m

\* c.maxID.Add(1): the new value of the counter
NextID(m) == m + 1

CounterAfterStartOnSuccess(m, ok) == IF ok THEN m + 1 ELSE m

\* c.maxID after a Start that got as far as newJob: the counter is advanced
\* before newJob runs, whether newJob then succeeds (ok) or not.
CounterAfterStart(m, ok) == NextID(m)

\* strconv.FormatUint(n, 10): the decimal digits of n, most significant first
RECURSIVE FormatUint(_)
FormatUint(n) == IF n < 10 THEN <<n>> ELSE FormatUint(n \div 10) \o <<n % 10>>

NewJobErrSwallowed(dirOk, outcome) == "nil"

\* The error of a newJob that fails: the mkdir of the job cgroup fails
\* without the parent directory, a limit cannot be written (ErrCgroup), or
\* cmd.Start fails (ErrCommand).  Start returns it as it is.
NewJobErr(dirOk, outcome) ==
    IF ~dirOk THEN "mkdirErr"
    ELSE IF outcome = "cgroupErr" THEN "ErrCgroup"
    ELSE "ErrCommand"

\* c.maxID.Add(1) and newJob.  outcome is what the system does: "ok", a limit
\* that cannot be written ("cgroupErr") or a command that cannot be started
\* ("spawnErr"); without the parent directory the mkdir fails.  A failed
\* newJob has deleted the job cgroup directory it made.
StartNewJob(t, outcome) ==
    /\ thPc[t] = "startChecked"
    /\ maxID < MaxJobs
    /\ maxID' = CounterAfterStart(maxID, parentDir /\ outcome = "ok")
    /\ newJobFailed' = IF parentDir /\ outcome = "ok" THEN newJobFailed
                       ELSE newJobFailed + 1
    /\ thArg' = [thArg EXCEPT ![t] = "-"]
    /\ LET id == NextID(maxID)
       IN  IF ~parentDir \/ outcome # "ok"
           THEN /\ returned' = RetStart(SomeCommand,
                                        NewJobErr(parentDir, outcome), 0)
                /\ thPc' = [thPc EXCEPT ![t] = "idle"]
                /\ UNCHANGED <<cgroupDirs, jobVars, thJob, clock>>
           ELSE /\ cgroupDirs' = cgroupDirs \cup {id}
                /\ child' = [child EXCEPT ![id] = "running"]
                /\ jobOwner' = [jobOwner EXCEPT ![id] = thArg[t]]
                /\ status' = [status EXCEPT ![id] = NewStatus(Now)]
                /\ clock' = clock + 1
                /\ thJob' = [thJob EXCEPT ![t] = id]
                /\ thPc' = [thPc EXCEPT ![t] = "startNewJob"]
                /\ returned' = NoReturn
                /\ UNCHANGED <<jMutex, childCode>>
    /\ UNCHANGED <<shutDown, cMutex, wg, jobs, parentDir, reaperVars, saVars>>
    /\ UNCHANGED <<logVars, svcVars, fsVars, reapVars, snapVars>>

\* c.add(id, job)
StartAdd(t) ==
    /\ thPc[t] = "startNewJob"
    /\ cMutex = "free"
    /\ jobs' = jobs \cup {thJob[t]}
    /\ thPc' = [thPc EXCEPT ![t] = "startAdded"]
    /\ returned' = NoReturn
    /\ UNCHANGED <<maxID, newJobFailed, shutDown, cMutex, wg, parentDir,
                   cgroupDirs, jobVars,
                   reaperVars, thArg, thJob, saVars, clock>>
    /\ UNCHANGED <<logVars, svcVars, fsVars, reapVars, snapVars>>

\* c.wg.Add(1), the go statement of the reaper, and the return of the id.
StartReaper(t) ==
    /\ thPc[t] = "startAdded"
    /\ wg' = wg + 1
    /\ reaperPc' = [reaperPc EXCEPT ![thJob[t]] = "wait"]
    /\ returned' = RetStart(SomeCommand, "nil", thJob[t])
    /\ thPc' = [thPc EXCEPT ![t] = "idle"]
    /\ thJob' = [thJob EXCEPT ![t] = 0]
    /\ UNCHANGED <<maxID, newJobFailed, shutDown, cMutex, jobs, parentDir,
                   cgroupDirs,
                   jobVars, waitErr, thArg, saVars, clock>>
    /\ UNCHANGED <<logVars, svcVars, fsVars, reapVars, snapVars>>

(***************************************************************************)
(* job.stop, Controller.Stop and Controller.Status                         *)
(***************************************************************************)

JobStopErrStoppedIsError(id, killFails) ==
    IF ~status[id].Running THEN "ErrJobStop"
    ELSE IF reaperPc[id] \notin {"none", "wait"} THEN "nil"
    ELSE IF killFails THEN "ErrJobStop"
    ELSE "nil"

\* job.stop() under j.mutex: the error it returns.  The child has been waited
\* for once the reaper has left cmd.Wait; Kill then reports
\* os.ErrProcessDone, which stop ignores.  killFails is a Kill that fails for
\* another reason.
JobStopErr(id, killFails) ==
    IF ~status[id].Running THEN "nil"
    ELSE IF reaperPc[id] \notin {"none", "wait"} THEN "nil"
    ELSE IF killFails THEN "ErrJobStop"
    ELSE "nil"

ChildAfterStopNoSignal(id, killFails) == child[id]

ChildAfterStopKillsExited(id, killFails) ==
    IF status[id].Running /\ reaperPc[id] \in {"none", "wait"} /\ ~killFails
       /\ child[id] \in {"running", "exited"}
    THEN "killed"
    ELSE child[id]

\* The child after job.stop(): SIGKILL ends a running child.
ChildAfterStop(id, killFails) ==
    IF status[id].Running /\ reaperPc[id] \in {"none", "wait"} /\ ~killFails
       /\ child[id] = "running"
    THEN "killed"
    ELSE child[id]

\* Stop(o, id), up to the return of c.get.
StopGet(t, o, id) ==
    /\ thPc[t] = "idle"
    /\ cMutex = "free"
    /\ IF GetErr(o, id) # "nil"
       THEN /\ returned' = RetTo(o, "Stop", GetErr(o, id), id, ZeroStatus)
            /\ UNCHANGED thVars
       ELSE /\ thPc' = [thPc EXCEPT ![t] = "stopGot"]
            /\ thJob' = [thJob EXCEPT ![t] = id]
            /\ thArg' = [thArg EXCEPT ![t] = o]
            /\ returned' = NoReturn
    /\ UNCHANGED <<ctlVars, jobVars, reaperVars, saVars, clock>>
    /\ UNCHANGED <<logVars, svcVars, fsVars, reapVars, snapVars>>

\* return job.stop()
StopJob(t, killFails) ==
    /\ thPc[t] = "stopGot"
    /\ jMutex[thJob[t]] = "free"
    /\ child' = [child EXCEPT ![thJob[t]] = ChildAfterStop(thJob[t], killFails)]
    /\ returned' = RetTo(thArg[t], "Stop", JobStopErr(thJob[t], killFails),
                         thJob[t], ZeroStatus)
    /\ thPc' = [thPc EXCEPT ![t] = "idle"]
    /\ thJob' = [thJob EXCEPT ![t] = 0]
    /\ thArg' = [thArg EXCEPT ![t] = "-"]
    /\ UNCHANGED <<ctlVars, jobOwner, status, jMutex, childCode, reaperVars,
                   saVars, clock>>
    /\ UNCHANGED <<logVars, svcVars, fsVars, reapVars, snapVars>>

\* Status(o, id), up to the return of c.get.
StatusGet(t, o, id) ==
    /\ thPc[t] = "idle"
    /\ cMutex = "free"
    /\ IF GetErr(o, id) # "nil"
       THEN /\ returned' = RetTo(o, "Status", GetErr(o, id), id, ZeroStatus)
            /\ UNCHANGED thVars
       ELSE /\ thPc' = [thPc EXCEPT ![t] = "statusGot"]
            /\ thJob' = [thJob EXCEPT ![t] = id]
            /\ thArg' = [thArg EXCEPT ![t] = o]
            /\ returned' = NoReturn
    /\ UNCHANGED <<ctlVars, jobVars, reaperVars, saVars, clock>>
    /\ UNCHANGED <<logVars, svcVars, fsVars, reapVars, snapVars>>

\* return job.getStatus(), nil
StatusRead(t) ==
    /\ thPc[t] = "statusGot"
    /\ jMutex[thJob[t]] = "free"
    /\ returned' = RetTo(thArg[t], "Status", "nil", thJob[t], status[thJob[t]])
    /\ thPc' = [thPc EXCEPT ![t] = "idle"]
    /\ thJob' = [thJob EXCEPT ![t] = 0]
    /\ thArg' = [thArg EXCEPT ![t] = "-"]
    /\ UNCHANGED <<ctlVars, jobVars, reaperVars, saVars, clock>>
    /\ UNCHANGED <<logVars, svcVars, fsVars, reapVars, snapVars>>

(***************************************************************************)
(* The child process and the reaper, job.wait                              *)
(***************************************************************************)

\* The child exits by itself with an exit status.
ChildExit(id, code) ==
    /\ child[id] = "running"
    /\ child' = [child EXCEPT ![id] = "exited"]
    /\ childCode' = [childCode EXCEPT ![id] = code]
    /\ returned' = NoReturn
    /\ UNCHANGED <<ctlVars, jobOwner, status, jMutex, reaperVars, thVars,
                   saVars, clock>>
    /\ UNCHANGED <<logVars, svcVars, fsVars, reapVars, snapVars>>

\* waitErr := j.cmd.Wait() returns once the child has ended.
ReaperWait(id, gotStatus) ==
    /\ reaperPc[id] = "wait"
    /\ child[id] \in {"exited", "killed"}
    /\ waitErr' = [waitErr EXCEPT ![id] = WaitResult(child[id], childCode[id], gotStatus)]
    /\ reaperPc' = [reaperPc EXCEPT ![id] = "lock"]
    /\ returned' = NoReturn
    /\ UNCHANGED <<ctlVars, jobVars, thVars, saVars, clock>>
    /\ UNCHANGED <<logVars, svcVars, fsVars, reapVars, snapVars>>

\* j.mutex.Lock() and the update of j.status.  The deferred Unlock runs when
\* wait returns, after the cgroup is cleaned up.
ReaperUpdate(id) ==
    /\ reaperPc[id] = "lock"
    /\ jMutex[id] = "free"
    /\ jMutex' = [jMutex EXCEPT ![id] = "reaper"]
    /\ status' = [status EXCEPT ![id] =
                     StatusAfterWait(status[id], waitErr[id], child[id],
                                     childCode[id], Now)]
    /\ clock' = clock + 1
    /\ reaperPc' = [reaperPc EXCEPT ![id] = "cleanup"]
    /\ returned' = NoReturn
    /\ UNCHANGED <<ctlVars, jobOwner, child, childCode, waitErr, thVars, saVars>>
    /\ UNCHANGED <<logVars, svcVars, fsVars, reapVars, snapVars>>

\* The rest of job.wait: the write of cgroup.kill, whose error is only
\* logged, and deleteCgroupWithRetry, which removes the job cgroup directory
\* (deleted) or gives up after EBUSY on every try or another error.  Then
\* wait returns: the deferred j.mutex.Unlock() and, in the reaper goroutine,
\* c.wg.Done().
ReaperCleanup(id, deleted) ==
    /\ reaperPc[id] = "cleanup"
    /\ cgroupDirs' = IF deleted THEN cgroupDirs \ {id} ELSE cgroupDirs
    /\ reaperPc' = [reaperPc EXCEPT ![id] = "done"]
    /\ jMutex' = [jMutex EXCEPT ![id] = "free"]
    /\ wg' = wg - 1
    /\ returned' = NoReturn
    /\ UNCHANGED <<maxID, newJobFailed, shutDown, cMutex, jobs, parentDir, jobOwner, status,
                   child, childCode, waitErr, thVars, saVars, clock>>
    /\ UNCHANGED <<logVars, svcVars, fsVars, reapVars, snapVars>>

(***************************************************************************)
(* Controller.StopAll                                                      *)
(***************************************************************************)

\* The test `if c.shutDown` at the head of StopAll.
AlreadyShutDownNever(sd) == FALSE
AlreadyShutDown(sd) == sd

\* StopAll up to the range over c.jobs: c.mutex is taken and kept.
StopAllBegin ==
    /\ saPc = "idle"
    /\ cMutex = "free"
    /\ IF AlreadyShutDown(shutDown)
       THEN /\ returned' = Ret("StopAll", "nil", 0, ZeroStatus)
            /\ UNCHANGED <<shutDown, cMutex, saVars>>
       ELSE /\ shutDown' = TRUE
            /\ cMutex' = "StopAll"
            /\ saPc' = "loop"
            /\ saTodo' = jobs
            /\ saErr' = FALSE
            /\ returned' = NoReturn
    /\ UNCHANGED <<maxID, newJobFailed, wg, jobs, parentDir, cgroupDirs, jobVars,
                   reaperVars, thVars, clock>>
    /\ UNCHANGED <<logVars, svcVars, fsVars, reapVars, snapVars>>

\* One round of the range over c.jobs: job.isRunning() and job.stop().
StopAllVisit(id, killFails) ==
    /\ saPc = "loop"
    /\ id \in saTodo
    /\ jMutex[id] = "free"
    /\ saTodo' = saTodo \ {id}
    /\ child' = [child EXCEPT ![id] = ChildAfterStop(id, killFails)]
    /\ saErr' = (saErr \/ JobStopErr(id, killFails) # "nil")
    /\ returned' = NoReturn
    /\ UNCHANGED <<ctlVars, jobOwner, status, jMutex, childCode, reaperVars,
                   thVars, saPc, clock>>
    /\ UNCHANGED <<logVars, svcVars, fsVars, reapVars, snapVars>>

\* c.wg.Wait() returns, deleteCgroup(c.telejobCgroup) runs, StopAll returns
\* and unlocks c.mutex.  The rmdir of the parent fails while a job cgroup
\* directory is in it.
StopAllEnd ==
    /\ saPc = "loop"
    /\ saTodo = {}
    /\ wg = 0
    /\ parentDir' = (parentDir /\ cgroupDirs # {})
    /\ returned' = Ret("StopAll",
                       IF saErr \/ (parentDir /\ cgroupDirs # {})
                       THEN "errors" ELSE "nil", 0, ZeroStatus)
    /\ saPc' = "idle"
    /\ saErr' = FALSE
    /\ cMutex' = "free"
    /\ UNCHANGED <<maxID, newJobFailed, shutDown, wg, jobs, cgroupDirs, jobVars, reaperVars,
                   thVars, saTodo, clock>>
    /\ UNCHANGED <<logVars, svcVars, fsVars, reapVars, snapVars>>

ControllerStep(T) ==
    \/ \E t \in T : StartEmpty(t)
    \/ \E t \in T, o \in Starters : StartCheck(t, o)
    \/ \E t \in T, outcome \in {"ok", "cgroupErr", "spawnErr"} :
          StartNewJob(t, outcome)
    \/ \E t \in T : StartAdd(t)
    \/ \E t \in T : StartReaper(t)
    \/ \E t \in T, o \in Owners, id \in JobIds : StopGet(t, o, id)
    \/ \E t \in T, killFails \in BOOLEAN : StopJob(t, killFails)
    \/ \E t \in T, o \in Owners, id \in JobIds : StatusGet(t, o, id)
    \/ \E t \in T : StatusRead(t)
    \/ \E id \in JobIds, code \in ExitCodes : ChildExit(id, code)
    \/ \E id \in JobIds, gotStatus \in BOOLEAN : ReaperWait(id, gotStatus)
    \/ \E id \in JobIds : ReaperUpdate(id)
    \/ \E id \in JobIds, deleted \in BOOLEAN : ReaperCleanup(id, deleted)
    \/ StopAllBegin
    \/ \E id \in JobIds, killFails \in BOOLEAN : StopAllVisit(id, killFails)
    \/ StopAllEnd

ControllerNext == ControllerStep(Threads)

\* The controller with one calling goroutine besides the caller of StopAll.
Callers1 == {"t1"}
OneCallerNext == ControllerStep(Callers1)

----------------------------------------------------------------------------
(***************************************************************************)
(* The gRPC server built by NewServer: the interceptors and the handlers   *)
(* of Service.                                                             *)
(***************************************************************************)
MaxCerts == 2

\* The Subject.CommonName of a certificate that has none.
NoCommonName == ""

\* The common names in client certificates.
CommonNames == Owners \cup {"carol", NoCommonName}

\* tlsInfo.State.PeerCertificates, each certificate by its common name.
CertChains == UNION {[1..n -> CommonNames] : n \in 0..MaxCerts}

\* What peer.FromContext finds: no peer, a peer whose AuthInfo is not a
\* credentials.TLSInfo, or a TLS peer with its certificates.
Peers ==
    {[kind |-> k, certs |-> <<>>] : k \in {"none", "notTLS"}}
        \cup {[kind |-> "tls", certs |-> c] : c \in CertChains}

\* The requests: Start of a command, and Stop, Status and Logs of a job id.
UnaryRequests ==
    {[method |-> "Start", arg |-> c] : c \in {EmptyCommand, SomeCommand}}
        \cup {[method |-> m, arg |-> FormatUint(id)] :
                 m \in {"Stop", "Status"}, id \in JobIds}
StreamRequests == {[method |-> "Logs", arg |-> FormatUint(id)] : id \in JobIds}

NoCall == [method |-> "none", arg |-> "", peer |-> [kind |-> "none", certs |-> <<>>],
           handled |-> FALSE, owner |-> "-", code |-> "-"]

ServiceInit == rpc = NoCall

extractCommonNameLastCert(peer) ==
    IF peer.kind # "tls" \/ Len(peer.certs) = 0
    THEN [cn |-> "", err |-> "ErrCommonName"]
    ELSE [cn |-> peer.certs[Len(peer.certs)], err |-> "nil"]

\* extractCommonName(ctx): the common name of the first peer certificate, or
\* ErrCommonName without a peer, TLS info or certificates.
extractCommonName(peer) ==
    IF peer.kind = "none" THEN [cn |-> "", err |-> "ErrCommonName"]
    ELSE IF peer.kind # "tls" THEN [cn |-> "", err |-> "ErrCommonName"]
    ELSE IF Len(peer.certs) = 0 THEN [cn |-> "", err |-> "ErrCommonName"]
    ELSE [cn |-> peer.certs[1], err |-> "nil"]

\* extractOwner(ctx) in a handler: the value the interceptor stored under
\* OwnerKey.
extractOwner(ctxOwner) == ctxOwner

\* The code of a unary handler of Service that was called with the owner:
\* it comes from the controller, see RpcCode.
UnaryHandlerCode == "handler"

\* Service.Logs
ServiceLogsCode == "Unimplemented"

\* unaryInterceptorCN around the handler of a unary method.
UnaryRpc(req, peer) ==
    /\ rpc' = LET cn == extractCommonName(peer)
              IN  IF cn.err # "nil"
                  THEN [method |-> req.method, arg |-> req.arg, peer |-> peer,
                        handled |-> FALSE, owner |-> "-",
                        code |-> "Unauthenticated"]
                  ELSE [method |-> req.method, arg |-> req.arg, peer |-> peer,
                        handled |-> TRUE, owner |-> extractOwner(cn.cn),
                        code |-> UnaryHandlerCode]
    /\ UNCHANGED <<logVars, controllerVars, fsVars, reapVars, snapVars>>

\* streamInterceptorCN around Service.Logs.
StreamRpc(req, peer) ==
    /\ rpc' = LET cn == extractCommonName(peer)
              IN  IF cn.err # "nil"
                  THEN [method |-> req.method, arg |-> req.arg, peer |-> peer,
                        handled |-> FALSE, owner |-> "-",
                        code |-> "Unauthenticated"]
                  ELSE [method |-> req.method, arg |-> req.arg, peer |-> peer,
                        handled |-> TRUE, owner |-> extractOwner(cn.cn),
                        code |-> ServiceLogsCode]
    /\ UNCHANGED <<logVars, controllerVars, fsVars, reapVars, snapVars>>

ServiceNext ==
    \/ \E req \in UnaryRequests, peer \in Peers : UnaryRpc(req, peer)
    \/ \E req \in StreamRequests, peer \in Peers : StreamRpc(req, peer)

----------------------------------------------------------------------------
(***************************************************************************)
(* newStartedCmd and newJobCgroup: the job cgroup directory, its limit     *)
(* files and the spawn.                                                    *)
(***************************************************************************)
MaxIO == 2

\* Limits: CPUs and MemoryKiB are set (> 0) or not, IO has 0..MaxIO entries.
\* Limits.MemoryKiB is a uint64: a value is its four 16-bit limbs, the least
\* significant first.
LimbBase == 2^16

U64Limbs == 4

U64Zero == <<0, 0, 0, 0>>

IsZero(x) == \A k \in 1..Len(x) : x[k] = 0

\* The limbs of x * m from limb k on with the carry so far; the last limb is
\* the carry out of the top limb of x.
RECURSIVE MulCarry(_, _, _, _)
MulCarry(x, m, k, carry) ==
    IF k > Len(x) THEN <<carry>>
    ELSE <<(x[k] * m + carry) % LimbBase>>
             \o MulCarry(x, m, k + 1, (x[k] * m + carry) \div LimbBase)

\* The product of x and m as a number, one limb longer than x.
ExactMul(x, m) == MulCarry(x, m, 1, 0)

\* The Go product of the uint64 x and the constant m: the low 64 bits.
Uint64Mul(x, m) == SubSeq(MulCarry(x, m, 1, 0), 1, U64Limbs)

\* x divided by ten, limb by limb from the top: quotient and remainder.
RECURSIVE DivTen(_, _, _)
DivTen(x, k, rem) ==
    IF k = Len(x) + 1 THEN [q |-> <<>>, r |-> rem]
    ELSE LET cur  == rem * LimbBase + x[Len(x) + 1 - k]
             rest == DivTen(x, k + 1, cur % 10)
         IN  [q |-> Append(rest.q, cur \div 10), r |-> rest.r]

\* The verb %d of fmt.Sprintf on an unsigned value: its decimal digits, most
\* significant first.
RECURSIVE FormatLimbs(_)
FormatLimbs(x) ==
    LET d == DivTen(x, 1, 0)
    IN  IF IsZero(d.q) THEN <<d.r>> ELSE FormatLimbs(d.q) \o <<d.r>>

\* The values of MemoryKiB the calls are made with: 0, 1, 1000, 2^54 - 1,
\* 2^54 and 2^64 - 1.
MemoryKiBValues ==
    {U64Zero, <<1, 0, 0, 0>>, <<1000, 0, 0, 0>>,
     <<LimbBase - 1, LimbBase - 1, LimbBase - 1, 63>>, <<0, 0, 0, 64>>,
     <<LimbBase - 1, LimbBase - 1, LimbBase - 1, LimbBase - 1>>}

LimitsSet == [cpus : 0..1, mem : MemoryKiBValues, io : 0..MaxIO]

RECURSIVE Repeat(_, _)
Repeat(x, n) == IF n = 0 THEN <<>> ELSE <<x>> \o Repeat(x, n - 1)

\* The files newJobCgroup writes for the limits, in its order.
CgroupWrites(limits) ==
    (IF limits.cpus > 0 THEN <<"cpu.max">> ELSE <<>>)
        \o (IF ~IsZero(limits.mem) THEN <<"memory.max">> ELSE <<>>)
        \o Repeat("io.max", limits.io)

\* fmt.Sprintf("%d\n", limits.MemoryKiB*1024)
MemoryMaxContent(limits) == <<FormatLimbs(Uint64Mul(limits.mem, 1024)), "\n">>

\* What newJobCgroup writes into these files: the CPU limit as a number of
\* hundred-thousandths and the memory limit in bytes, each followed by a
\* newline, and the entries of limits.IO as they are.
CgroupContents(limits) ==
    (IF limits.cpus > 0
     THEN <<<<FormatUint(limits.cpus * 100000), "\n">>>> ELSE <<>>)
        \o (IF ~IsZero(limits.mem) THEN <<MemoryMaxContent(limits)>> ELSE <<>>)
        \o Repeat(<<<<>>, "ioLimit">>, limits.io)

\* What the system does to a call: whether the mkdir, the open of the
\* directory, the rmdir and cmd.Start succeed, and which write fails (0 for
\* none).
SysOutcomes ==
    [mkdirOk : BOOLEAN, openOk : BOOLEAN, rmOk : BOOLEAN, startOk : BOOLEAN,
     failAt : 0..(2 + MaxIO)]

newJobCgroupNoRollback(limits, sys) ==
    IF ~sys.mkdirOk
    THEN [err |-> "mkdirErr", dir |-> FALSE, written |-> <<>>,
          contents |-> <<>>]
    ELSE IF sys.failAt \in 1..Len(CgroupWrites(limits))
    THEN [err |-> "ErrCgroup", dir |-> TRUE,
          written |-> SubSeq(CgroupWrites(limits), 1, sys.failAt - 1),
          contents |-> SubSeq(CgroupContents(limits), 1, sys.failAt - 1)]
    ELSE [err |-> "nil", dir |-> TRUE, written |-> CgroupWrites(limits),
          contents |-> CgroupContents(limits)]

\* newJobCgroup: os.Mkdir, then the writes one after the other up to the
\* first that fails; the deferred deleteCgroupOnErr removes the directory
\* when a write failed, and only logs when the removal fails.
newJobCgroup(limits, sys) ==
    IF ~sys.mkdirOk
    THEN [err |-> "mkdirErr", dir |-> FALSE, written |-> <<>>,
          contents |-> <<>>]
    ELSE IF sys.failAt \in 1..Len(CgroupWrites(limits))
    THEN [err |-> "ErrCgroup", dir |-> ~sys.rmOk,
          written |-> SubSeq(CgroupWrites(limits), 1, sys.failAt - 1),
          contents |-> SubSeq(CgroupContents(limits), 1, sys.failAt - 1)]
    ELSE [err |-> "nil", dir |-> TRUE, written |-> CgroupWrites(limits),
          contents |-> CgroupContents(limits)]

\* newStartedCmd: newJobCgroup, os.Open of the directory, cmd.Start; a
\* command that cannot be started has its cgroup deleted.
newStartedCmd(limits, sys) ==
    LET c == newJobCgroup(limits, sys)
    IN  IF c.err # "nil"
        THEN [err |-> c.err, dir |-> c.dir, written |-> c.written,
              contents |-> c.contents,
              spawned |-> FALSE]
        ELSE IF ~sys.openOk
        THEN [err |-> "openErr", dir |-> TRUE, written |-> c.written,
              contents |-> c.contents,
              spawned |-> FALSE]
        ELSE IF ~sys.startOk
        THEN [err |-> "ErrCommand", dir |-> ~sys.rmOk, written |-> c.written,
              contents |-> c.contents,
              spawned |-> FALSE]
        ELSE [err |-> "nil", dir |-> TRUE, written |-> c.written,
              contents |-> c.contents,
              spawned |-> TRUE]

NoCgroupCall ==
    [limits |-> [cpus |-> 0, mem |-> U64Zero, io |-> 0],
     sys |-> [mkdirOk |-> TRUE, openOk |-> TRUE, rmOk |-> TRUE,
              startOk |-> TRUE, failAt |-> 0],
     res |-> [err |-> "none", dir |-> FALSE, written |-> <<>>,
              contents |-> <<>>,
              spawned |-> FALSE]]

CgroupInit == cg = NoCgroupCall

\* The call of newStartedCmd for one job: a job has its own cgroup path, and
\* newJob makes the call once.
NewStartedCmd(limits, sys) ==
    /\ cg = NoCgroupCall
    /\ cg' = [limits |-> limits, sys |-> sys,
              res |-> newStartedCmd(limits, sys)]
    /\ UNCHANGED <<logVars, controllerVars, svcVars, reapVars, snapVars>>

CgroupNext == \E limits \in LimitsSet, sys \in SysOutcomes : NewStartedCmd(limits, sys)

----------------------------------------------------------------------------
(***************************************************************************)
(* job.wait and deleteCgroupWithRetry, step by step, for one job.          *)
(***************************************************************************)
\* The retries argument of deleteCgroupWithRetry in job.wait.
DeleteRetries == 3

\* What one deleteCgroup does: the directory is removed ("ok"), os.Stat
\* finds it already gone ("gone"), os.Remove fails with EBUSY, or the stat
\* or the remove fails otherwise ("other").
DeleteOutcomes == {"ok", "gone", "EBUSY", "other"}

\* The job after newJob: the child runs, the reaper is in cmd.Wait().
ReapInit ==
    rp = [pc |-> "cmdWait", child |-> "running", code |-> 0,
          waitErr |-> "none", running |-> TRUE, mutex |-> "free",
          ops |-> <<>>, killOk |-> FALSE, i |-> 0, attempts |-> <<>>,
          dir |-> TRUE]

\* The child exits by itself.
ReapChildExit(code) ==
    /\ rp.child = "running"
    /\ rp' = [rp EXCEPT !.child = "exited", !.code = code]
    /\ UNCHANGED <<logVars, controllerVars, svcVars, fsVars, snapVars>>

\* job.stop() by a caller: under j.mutex, SIGKILL for a job that is running.
ReapStop(killFails) ==
    /\ rp.mutex = "free"
    /\ rp' = [rp EXCEPT !.child =
                 IF rp.running /\ rp.pc = "cmdWait" /\ ~killFails
                    /\ rp.child = "running"
                 THEN "killed" ELSE rp.child]
    /\ UNCHANGED <<logVars, controllerVars, svcVars, fsVars, snapVars>>

\* waitErr := j.cmd.Wait()
ReapWait(gotStatus) ==
    /\ rp.pc = "cmdWait"
    /\ rp.child # "running"
    /\ rp' = [rp EXCEPT !.pc = "lock",
                        !.waitErr = WaitResult(rp.child, rp.code, gotStatus),
                        !.ops = Append(rp.ops, "wait")]
    /\ UNCHANGED <<logVars, controllerVars, svcVars, fsVars, snapVars>>

\* j.mutex.Lock() and the update of j.status
ReapUpdate ==
    /\ rp.pc = "lock"
    /\ rp.mutex = "free"
    /\ rp' = [rp EXCEPT !.pc = "kill", !.mutex = "reaper",
                        !.running = FALSE,
                        !.ops = Append(rp.ops, "status")]
    /\ UNCHANGED <<logVars, controllerVars, svcVars, fsVars, snapVars>>

AfterKillWriteReturnOnErr(ok) == IF ok THEN "delete" ELSE "returned"

\* Where job.wait goes on after writeCgroupFile(cgroup.kill): its error is
\* only logged.
AfterKillWrite(ok) == "delete"

\* writeCgroupFile(j.cgroup, "cgroup.kill", "1")
ReapWriteKill(ok) ==
    /\ rp.pc = "kill"
    /\ rp' = [rp EXCEPT !.pc = AfterKillWrite(ok), !.killOk = ok,
                        !.mutex = IF AfterKillWrite(ok) = "returned"
                                  THEN "free" ELSE rp.mutex,
                        !.ops = Append(rp.ops, "cgroup.kill")]
    /\ UNCHANGED <<logVars, controllerVars, svcVars, fsVars, snapVars>>

ShouldRetryAnyError(outcome) == outcome \in {"EBUSY", "other"}

\* deleteCgroupWithRetry goes on to sleep and retry only after EBUSY.
ShouldRetry(outcome) == outcome = "EBUSY"

\* One round of the loop of deleteCgroupWithRetry: deleteCgroup, and the
\* return on success or on an error that is not retried.
ReapDeleteAttempt(outcome) ==
    /\ rp.pc = "delete"
    /\ rp.i < DeleteRetries
    /\ rp' = [rp EXCEPT
                 !.attempts = Append(rp.attempts, outcome),
                 !.ops = IF outcome = "gone" THEN rp.ops
                         ELSE Append(rp.ops, "rmdir"),
                 !.dir = IF outcome \in {"ok", "gone"} THEN FALSE ELSE rp.dir,
                 !.pc = IF ShouldRetry(outcome) THEN "sleep" ELSE "returned",
                 !.mutex = IF ShouldRetry(outcome) THEN rp.mutex ELSE "free"]
    /\ UNCHANGED <<logVars, controllerVars, svcVars, fsVars, snapVars>>

\* time.Sleep(dur) and the next round, or the end of the loop: the error is
\* logged and job.wait returns.
ReapSleep ==
    /\ rp.pc = "sleep"
    /\ rp' = [rp EXCEPT !.i = rp.i + 1,
                        !.pc = IF rp.i + 1 < DeleteRetries THEN "delete"
                               ELSE "returned",
                        !.mutex = IF rp.i + 1 < DeleteRetries THEN rp.mutex
                                  ELSE "free"]
    /\ UNCHANGED <<logVars, controllerVars, svcVars, fsVars, snapVars>>

ReapNext ==
    \/ \E code \in ExitCodes : ReapChildExit(code)
    \/ \E killFails \in BOOLEAN : ReapStop(killFails)
    \/ \E gotStatus \in BOOLEAN : ReapWait(gotStatus)
    \/ ReapUpdate
    \/ \E ok \in BOOLEAN : ReapWriteKill(ok)
    \/ \E outcome \in DeleteOutcomes : ReapDeleteAttempt(outcome)
    \/ ReapSleep

----------------------------------------------------------------------------
(***************************************************************************)
(* newJob, job.getStatus and the callers' use of what they passed and what *)
(* they got, for one job that keeps running.                               *)
(***************************************************************************)
\* The Status values one caller keeps.
MaxSnapshots == 2

\* The argument lists Start is called with.
ArgLists == {<<>>, <<"a">>, <<"a", "b">>}

\* The arrays behind the slices: the one of the caller's argument list and
\* the one the compiler makes for a call with separate arguments.
CallerArray == 1
FreshArray == 2

SnapInit ==
    sn = [pc |-> "new", heap |-> <<<<>>, <<>>>>, status |-> [args |-> 0],
          held |-> <<>>, results |-> <<>>]

\* The array the variadic parameter args of Controller.Start refers to: the
\* caller's own for Start(owner, command, arguments...), a new one for
\* separate arguments.
ArgsArray(spread) == IF spread THEN CallerArray ELSE FreshArray

\* Controller.Start and newJob: Status.Args is the slice args itself.
SnapStart(args, spread) ==
    /\ sn.pc = "new"
    /\ sn' = [sn EXCEPT
                 !.pc = "started",
                 !.heap = [a \in {CallerArray, FreshArray} |->
                              IF a = CallerArray \/ ~spread THEN args
                              ELSE <<>>],
                 !.status = [running |-> TRUE, exitCode |-> NotTerminated,
                             args |-> ArgsArray(spread)]]
    /\ UNCHANGED <<logVars, controllerVars, svcVars, fsVars, reapVars>>

\* job.getStatus: a copy of the struct j.status; the copy of a slice refers
\* to the same array.
getStatus(jStatus) == jStatus

\* What a caller reads in a Status value: its fields and the elements of
\* its arguments.
Deref(st, heap) ==
    [running |-> st.running, exitCode |-> st.exitCode, args |-> heap[st.args]]

\* Controller.Status
SnapStatus ==
    /\ sn.pc = "started"
    /\ Len(sn.held) < MaxSnapshots
    /\ sn' = [sn EXCEPT
                 !.held = Append(sn.held, getStatus(sn.status)),
                 !.results = Append(sn.results,
                                    Deref(getStatus(sn.status), sn.heap))]
    /\ UNCHANGED <<logVars, controllerVars, svcVars, fsVars, reapVars>>

\* The caller assigns to a field of a Status value it holds.
SnapSetField(k) ==
    /\ k \in 1..Len(sn.held)
    /\ sn.held[k].running
    /\ sn' = [sn EXCEPT !.held[k].running = FALSE,
                        !.held[k].exitCode = 0]
    /\ UNCHANGED <<logVars, controllerVars, svcVars, fsVars, reapVars>>

\* The caller assigns to an element of the Args of a Status value it holds.
SnapSetArg(k, i) ==
    /\ k \in 1..Len(sn.held)
    /\ i \in 1..Len(sn.heap[sn.held[k].args])
    /\ sn.heap[sn.held[k].args][i] # "x"
    /\ sn' = [sn EXCEPT !.heap[sn.held[k].args][i] = "x"]
    /\ UNCHANGED <<logVars, controllerVars, svcVars, fsVars, reapVars>>

\* After Start returned its caller assigns to an element of the argument
\* list it passed.
SnapSetCallerArg(i) ==
    /\ sn.pc = "started"
    /\ i \in 1..Len(sn.heap[CallerArray])
    /\ sn.heap[CallerArray][i] # "y"
    /\ sn' = [sn EXCEPT !.heap[CallerArray][i] = "y"]
    /\ UNCHANGED <<logVars, controllerVars, svcVars, fsVars, reapVars>>

SnapNext ==
    \/ \E args \in ArgLists, spread \in BOOLEAN : SnapStart(args, spread)
    \/ SnapStatus
    \/ \E k \in 1..MaxSnapshots : SnapSetField(k)
    \/ \E k \in 1..MaxSnapshots, i \in 1..2 : SnapSetArg(k, i)
    \/ \E i \in 1..2 : SnapSetCallerArg(i)

----------------------------------------------------------------------------
(***************************************************************************)
(* The specifications.                                                     *)
(***************************************************************************)
Init ==
    LogInit /\ ControllerInit /\ ServiceInit /\ CgroupInit /\ ReapInit /\ SnapInit

\* The log dispatcher alone.
SpecLog == Init /\ [][LogNext]_vars

\* The controller alone.
SpecJob == Init /\ [][ControllerNext]_vars

\* One job and its reaper alone.
SpecReap == Init /\ [][ReapNext]_vars

\* One job's status and its callers alone.
SpecSnap == Init /\ [][SnapNext]_vars

\* The creation of job cgroups alone.
SpecCgroup == Init /\ [][CgroupNext]_vars

\* The gRPC server alone: calls arrive from any peer.
SpecService == Init /\ [][ServiceNext]_vars

\* The controller, with one calling goroutine, and its goroutines scheduled
\* fairly: a Start that has registered its job goes on to start the reaper,
\* and a reaper whose cmd.Wait can return, or that can take the free j.mutex,
\* does so.  Nothing is assumed of the caller's new calls nor of the children.
SpecJobFair ==
    /\ Init /\ [][OneCallerNext]_vars
    /\ \A t \in Callers1 : WF_vars(StartReaper(t))
    /\ \A id \in JobIds : WF_vars(\E gotStatus \in BOOLEAN : ReaperWait(id, gotStatus))
    /\ \A id \in JobIds : WF_vars(ReaperUpdate(id))

\* SpecJobFair with the goroutine of StopAll and the rest of job.wait
\* scheduled fairly as well: StopAll goes on with its loop when the j.mutex it
\* needs is free and returns from c.wg.Wait() when the counter is zero, and a
\* reaper finishes its cgroup cleanup.  A child may still run for ever.
SpecShutdownFair ==
    /\ SpecJobFair
    /\ \A id \in JobIds : WF_vars(\E deleted \in BOOLEAN : ReaperCleanup(id, deleted))
    /\ WF_vars(\E id \in JobIds, killFails \in BOOLEAN : StopAllVisit(id, killFails))
    /\ WF_vars(StopAllEnd)

\* SpecShutdownFair with a caller that goes on once the mutex it waits for is
\* free: c.mutex in c.add, j.mutex in job.stop and job.getStatus.
SpecMutexFair ==
    /\ SpecShutdownFair
    /\ \A t \in Callers1 :
          /\ WF_vars(StartAdd(t))
          /\ WF_vars(\E killFails \in BOOLEAN : StopJob(t, killFails))
          /\ WF_vars(StatusRead(t))

\* The dispatcher's select takes a ready case at random, so a case that
\* stays ready is taken in the end: weak fairness of the input case.  No
\* fairness is assumed of the readers.
SpecLogFair == SpecLog /\ WF_vars(HandleInput)

\* The log dispatcher with a loop that takes every case of its select that
\* stays ready, and readers that go on from their select once a case of it
\* is ready.
SpecLogLive ==
    /\ SpecLog
    /\ WF_vars(HandleInput)
    /\ WF_vars(HandleInputClosed)
    /\ \A r \in Readers :
          /\ WF_vars(HandleRequest(r))
          /\ WF_vars(HandleDone(r))
          /\ WF_vars(ReadSelectDone(r) \/ \E plen \in 1..MaxBuf : ReadSelectResp(r, plen))

----------------------------------------------------------------------------
(***************************************************************************)
(* Properties of the log dispatcher.                                       *)
(***************************************************************************)

\* A reader has returned end-of-stream from its slot (Read line 182).
ReachedEOF(r) == respNil[r] \/ ret[r].err = "EOF"

\* C1: the bytes a reader's Read calls returned up to EOF are, in order,
\* exactly fullLog, which is exactly what the producer wrote; whenever the
\* reader was created and however its reads were truncated.
FanOutLaw ==
    \A r \in Readers : ReachedEOF(r) => got[r] = fullLog /\ got[r] = written

\* A reader created after the producer closed has read a log longer than any
\* caller buffer (so its reads were truncated) up to EOF.
FanOutLawWitness ==
    \E r \in Readers :
        /\ late[r]
        /\ ret[r].err = "EOF"
        /\ got[r] = written
        /\ Len(written) > MaxBuf

\* C2: each of several readers satisfies the fan-out law whatever the other
\* reader does (slow, late, cancelled, finished): a reader at EOF holds all the
\* producer wrote, and what the other has received so far is a prefix of it.
ReadersIndependent ==
    \A r1, r2 \in Readers :
        (r1 # r2 /\ ReachedEOF(r1)) =>
            /\ got[r1] = written
            /\ IsPrefix(got[r2], got[r1])
            /\ (ReachedEOF(r2) => got[r2] = got[r1])

\* One reader is at EOF with the whole log while the other was cancelled after
\* it had received only a part of it.
ReadersIndependentWitness ==
    \E r1, r2 \in Readers :
        /\ r1 # r2
        /\ ReachedEOF(r1)
        /\ got[r1] = written
        /\ ret[r2].err = "ctx"
        /\ 0 < Len(got[r2])
        /\ Len(got[r2]) < Len(written)

\* C3: a reader's cursor never decreases and never exceeds len(fullLog); what
\* the reader has received is the first startIdx bytes of fullLog, and each
\* successful Read returns the bytes of fullLog from the cursor on.
ProducerOrder ==
    /\ [](\A r \in Readers :
            /\ startIdx[r] <= Len(fullLog)
            /\ got[r] = SubSeq(fullLog, 1, startIdx[r]))
    /\ [][\A r \in Readers :
            /\ startIdx'[r] >= startIdx[r]
            /\ startIdx'[r] <= Len(fullLog')
            /\ got'[r] = got[r] \o SubSeq(fullLog', startIdx[r] + 1, startIdx'[r])]_vars

\* A reader has made more than one successful Read and is not at the end.
ProducerOrderWitness ==
    \E r \in Readers :
        /\ ret[r] = Return("nil", 186)
        /\ startIdx[r] > MaxBuf
        /\ startIdx[r] < Len(fullLog)

\* C4: a Read returns EOF only when the producer has closed, the dispatcher
\* has seen it, and the reader's cursor is at the end of fullLog; the slot of a
\* reader that is not cancelled is closed only then.
EOFOnlyAtEnd ==
    \A r \in Readers :
        /\ ReachedEOF(r) =>
              prodPc = "closed" /\ ~inputOpen /\ startIdx[r] = Len(fullLog)
        /\ (respClosed[r] /\ ~ctxDone[r]) =>
              prodPc = "closed" /\ ~inputOpen /\ startIdx[r] = Len(fullLog)

\* A Read has returned EOF from its closed slot at the end of a log that is
\* not empty.
EOFOnlyAtEndWitness ==
    \E r \in Readers :
        /\ ret[r] = Return("EOF", 182)
        /\ Len(fullLog) > 0
        /\ startIdx[r] = Len(fullLog)

\* C5: the dispatcher never blocks in a send (every slot it sends into is
\* empty, so no slot holds more than SlotCap messages), and a Write that is
\* waiting to hand over its chunk is accepted, whatever the readers do.
ProducerNeverBlocked ==
    /\ [](dispState # "blocked" /\ \A r \in Readers : Len(respCh[r]) <= SlotCap)
    /\ (prodPc = "sending") ~> (prodPc # "sending")

\* All writes were accepted while a reader still has not picked up a chunk
\* delivered to its slot before the last of them.
ProducerNeverBlockedWitness ==
    \E r \in Readers :
        /\ rdPc[r] = "select"
        /\ respCh[r] # <<>>
        /\ nWrites = MaxWrites
        /\ prodPc = "idle"
        /\ fullLog = written
        /\ startIdx[r] + Len(Head(respCh[r])) < Len(fullLog)

\* C6: a Read that was waiting for its response (request sent, nothing in
\* its slot yet) when the cancel signal fired returns the cancellation error;
\* once the cancellation is processed (the reader is cancelled and has no
\* Read in progress) its slot is not in followers, and a cancelled reader
\* sends no request again.
CancelNeverLeaks ==
    [][\A r \in Readers :
        /\ (rdPc[r] = "select" /\ firedWaiting[r] /\ rdPc'[r] = "idle") =>
              ret'[r].err = "ctx"
        /\ (ctxDone'[r] /\ rdPc'[r] = "idle") => r \notin followers'
        /\ (ctxDone[r] /\ rdPc[r] = "idle") => rdPc'[r] = "idle"]_vars

\* C7: once the cancel signal of a reader has fired the reader receives no
\* further byte, every Read that returns reports the cancellation, and a
\* Read started afterwards sends no request.
CancelledGetsNoData ==
    [][\A r \in Readers :
        ctxDone[r] =>
            /\ got'[r] = got[r]
            /\ (ret'[r] # ret[r] => ret'[r].err = "ctx")
            /\ (rdPc[r] = "idle" => rdPc'[r] = "idle")]_vars

\* C8 as stated: after a Read returned EOF every Read returns EOF, whatever
\* happens (a later cancel signal included), and sends no request.
EOFStickyAlways ==
    [][\A r \in Readers :
        ReachedEOF(r) => ret'[r].err = "EOF" /\ rdPc'[r] = "idle"]_vars

\* C8 as amended: after a Read returned EOF no Read sends a request or returns
\* data, and each returns EOF unless the cancel signal has fired before the
\* call, when it returns the cancellation error.
EOFStickyUnlessCancelled ==
    [][\A r \in Readers :
        ReachedEOF(r) =>
            /\ respNil'[r]
            /\ rdPc'[r] = "idle"
            /\ got'[r] = got[r]
            /\ ret'[r].err \in {"EOF", "ctx"}
            /\ (ret'[r] # ret[r] =>
                  ret'[r] = IF ctxDone[r] THEN Return("ctx", 168)
                                          ELSE Return("EOF", 171))]_vars

\* A Read made after the EOF has returned EOF without a request.
EOFStickyWitness ==
    \E r \in Readers : respNil[r] /\ ret[r] = Return("EOF", 171)

----------------------------------------------------------------------------
(***************************************************************************)
(* Claims about the status of a job.                                       *)
(***************************************************************************)

\* C9: in every status snapshot that Status returns, running = true,
\* exit_code = NotTerminated and stopped = zero time are equivalent,
\* whatever the reaper's wait returned.
SnapshotTripleAgrees ==
    (returned.op = "Status" /\ returned.err = "nil") =>
        /\ returned.st.Running <=> (returned.st.ExitCode = NotTerminated)
        /\ returned.st.Running <=> (returned.st.Stopped = ZeroTime)

\* C10: once a job is reaped its exit_code is 0 if the wait succeeded, the
\* child's exit status if it exited by itself with another status, and
\* TerminatedBySignal if a signal ended it or the wait yielded no status; the
\* exit_code of a job is always in {-2, -1, 0..255}.
ReapedExitCode ==
    \A id \in JobIds :
        /\ status[id].ExitCode \in {NotTerminated, TerminatedBySignal} \cup 0..255
        /\ reaperPc[id] \in {"cleanup", "done"} =>
              status[id].ExitCode =
                 IF waitErr[id] = "nil" THEN 0
                 ELSE IF waitErr[id] = "ExitError" /\ child[id] = "exited"
                      THEN childCode[id]
                 ELSE TerminatedBySignal

\* C11: for a registered job, after a Stop by its owner has returned success,
\* and after its child has ended by itself, the job's status eventually has
\* running = false, which is what Status then reports.
EventuallyNotRunning ==
    \A id \in JobIds :
        /\ (returned.op = "Stop" /\ returned.err = "nil" /\ returned.id = id)
              ~> ~status[id].Running
        /\ (id \in jobs /\ child[id] = "exited") ~> ~status[id].Running

\* A Status snapshot shows running = false for a job whose child a Stop
\* killed.
EventuallyNotRunningWitness ==
    /\ returned.op = "Status"
    /\ returned.err = "nil"
    /\ ~returned.st.Running
    /\ child[returned.id] = "killed"

----------------------------------------------------------------------------
(***************************************************************************)
(* Claims about Start and the ids it returns.                              *)
(***************************************************************************)

\* The ids successful Starts have returned: Start returns the id in the
\* step that starts the job's reaper.
Issued == {id \in JobIds : reaperPc[id] # "none"}

\* C12: the ids successful Starts return are the decimal strings of a
\* counter that starts at 1 and goes up by one at each assignment; an id is
\* greater than every id assigned before it, no two Starts in progress hold
\* the same id, and no Start returns an id that a Start has returned before.
IdsDistinctIncreasing ==
    /\ [](/\ Issued \subseteq 1..maxID
          /\ \A t \in Threads : thJob[t] \in 0..maxID
          /\ \A t1, t2 \in Threads :
                (t1 # t2 /\ thPc[t1] \in {"startNewJob", "startAdded"}
                         /\ thPc[t2] \in {"startNewJob", "startAdded"})
                   => thJob[t1] # thJob[t2]
          /\ \A i, j \in Issued : i # j => FormatUint(i) # FormatUint(j)
          /\ (1 \in Issued => FormatUint(1) = <<1>>))
    /\ [][/\ maxID' \in {maxID, maxID + 1}
          /\ (maxID = 0 /\ maxID' # maxID) => maxID' = 1
          /\ \A t \in Threads :
                (thPc[t] = "startChecked" /\ thPc'[t] = "startNewJob") =>
                    /\ thJob'[t] = maxID'
                    /\ thJob'[t] > maxID
          /\ (returned'.op = "Start" /\ returned'.err = "nil") =>
                    /\ returned'.id \in 1..maxID
                    /\ returned'.id \notin Issued
                    /\ returned'.id \in Issued']_vars

\* Two concurrent Starts have succeeded, and the one with the smaller id
\* returns after the one with the greater id.
IdsDistinctIncreasingWitness ==
    /\ returned.op = "Start"
    /\ returned.err = "nil"
    /\ returned.id = 1
    /\ Issued = {1, 2}

\* The jobs newJob has made: their command was started.
Created == {id \in JobIds : child[id] # "none"}

\* The id the next Start that reaches newJob is given.
NextStartId == NextID(maxID)

\* A Start returns because its newJob failed to start the command.
SpawnFails(t) ==
    /\ thPc[t] = "startChecked"
    /\ thPc'[t] = "idle"
    /\ returned'.op = "Start"
    /\ returned'.err = "ErrCommand"

\* C13 as stated: a Start that is rejected because the spawn failed does not
\* advance the id sequence: the next successful Start gets the id it would
\* have got without the failed Start.
FailedSpawnKeepsNextId ==
    [][\A t \in Threads : SpawnFails(t) => NextStartId' = NextStartId]_vars

\* C13 as amended: a Start whose newJob fails has consumed an id, which no
\* job ever gets; the id of a new job is one more than the number of Starts,
\* successful or failed in newJob, that took an id before it.
FailedSpawnConsumesId ==
    /\ [](maxID = Cardinality(Created) + newJobFailed)
    /\ [][\A t \in Threads :
            /\ SpawnFails(t) =>
                  /\ NextStartId' = NextStartId + 1
                  /\ Created' = Created
                  /\ jobs' = jobs
            /\ (thPc[t] = "startChecked" /\ thPc'[t] = "startNewJob") =>
                  thJob'[t] = Cardinality(Created) + newJobFailed + 1]_vars

\* The first Start failed in newJob and the only job made since has id 2.
FailedSpawnConsumesIdWitness ==
    /\ newJobFailed = 1
    /\ Created = {2}
    /\ jobs = {2}
    /\ Issued = {2}

\* A Start returns from a newJob that made no job.
NewJobFails(t) == thPc[t] = "startChecked" /\ thPc'[t] = "idle"

\* C14: a Start whose spawn fails returns ErrCommand, registers no job and
\* starts no reaper; the registry, the owners, the statuses, the children and
\* the cgroup directories are as before, so every Stop and Status answers as
\* before; the id the failed Start took is not in the registry, then or later.
FailedStartNoEffect ==
    /\ [](jobs \subseteq Created /\ Issued \subseteq jobs)
    /\ [][\A id \in Created' \ Created : id > maxID]_vars
    /\ [][\A t \in Threads :
            /\ NewJobFails(t) =>
                  /\ returned'.op = "Start"
                  /\ returned'.err \in {"ErrCommand", "ErrCgroup", "mkdirErr"}
            /\ SpawnFails(t) =>
                  /\ jobs' = jobs
                  /\ <<jobOwner, status, child, childCode, jMutex>>' =
                        <<jobOwner, status, child, childCode, jMutex>>
                  /\ <<reaperPc, waitErr, wg>>' = <<reaperPc, waitErr, wg>>
                  /\ cgroupDirs' = cgroupDirs
                  /\ \A o \in Owners, id \in JobIds : GetErr(o, id)' = GetErr(o, id)
                  /\ \A o \in Owners : GetErr(o, NextStartId)' = "ErrJobNotFound"
                  /\ NextStartId \notin Created']_vars

\* A Start has just failed to spawn on a controller that has a registered
\* job; the id it took names no job.
FailedStartNoEffectWitness ==
    /\ returned.op = "Start"
    /\ returned.err = "ErrCommand"
    /\ jobs = {1}
    /\ maxID = 2
    /\ Created = {1}

----------------------------------------------------------------------------
(***************************************************************************)
(* Claims about Controller.get: ownership and existence.                   *)
(***************************************************************************)

\* A call of Stop or Status has returned in this step.
Answered == returned.op \in {"Stop", "Status"}

\* C15: Stop and Status by an owner string that is not the job's owner
\* return Unauthorized for a registered job, send no signal, return no field
\* of the status and change nothing of the job; a call that gets as far as
\* the job was made with the job's owner string, and a call with the job's
\* owner string is not refused as Unauthorized.
OnlyOwnerPasses ==
    /\ [](\A t \in Threads :
            thPc[t] \in {"stopGot", "statusGot"} =>
                thJob[t] \in jobs /\ thArg[t] = jobOwner[thJob[t]])
    /\ [](Answered /\ returned.id \in jobs =>
            /\ (returned.who # jobOwner[returned.id]
                   => returned.err = "ErrUnauthorized")
            /\ (returned.who = jobOwner[returned.id]
                   => returned.err # "ErrUnauthorized"))
    /\ [][(returned'.op \in {"Stop", "Status"}
           /\ returned'.err = "ErrUnauthorized") =>
            /\ returned'.st = ZeroStatus
            /\ <<jobOwner, status, jMutex, child, childCode>>' =
                  <<jobOwner, status, jMutex, child, childCode>>
            /\ <<reaperPc, waitErr>>' = <<reaperPc, waitErr>>
            /\ jobs' = jobs]_vars

\* A stranger's Stop on a registered job whose child runs has been refused,
\* and the child still runs.
OnlyOwnerPassesWitness ==
    /\ returned.op = "Stop"
    /\ returned.err = "ErrUnauthorized"
    /\ returned.id \in jobs
    /\ returned.who # jobOwner[returned.id]
    /\ child[returned.id] = "running"
    /\ status[returned.id].Running

\* C16: Stop and Status for an id that is not in the registry return
\* NotFound whatever the owner string, also for an id whose job exists but is
\* not registered yet; Unauthorized is returned only for registered ids, and
\* NotFound only for ids that are not registered.
NotFoundBeforeOwner ==
    Answered =>
        /\ (returned.id \notin jobs => returned.err = "ErrJobNotFound")
        /\ (returned.err = "ErrUnauthorized" => returned.id \in jobs)
        /\ (returned.err = "ErrJobNotFound" => returned.id \notin jobs)

\* A stranger has asked for a job that newJob has made for another owner
\* and that Start has not registered yet, and got NotFound.
NotFoundBeforeOwnerWitness ==
    /\ Answered
    /\ returned.err = "ErrJobNotFound"
    /\ returned.id \in Created \ jobs
    /\ returned.who # jobOwner[returned.id]

----------------------------------------------------------------------------
(***************************************************************************)
(* Claims about StopAll.                                                   *)
(***************************************************************************)

\* A StopAll that shut the controller down has returned.
StopAllReturned == shutDown /\ saPc = "idle"

\* C17: once StopAll has returned no Start returns successfully and no job
\* is added to the registry, also for a Start that passed its shutdown check
\* before StopAll set the flag; a Start that begins after the shutdown
\* returns the Shutdown error.
StopAllTerminalForStart ==
    [][/\ StopAllReturned =>
            /\ jobs' = jobs
            /\ ~(returned'.op = "Start" /\ returned'.err = "nil")
       /\ \A t \in Threads :
            (shutDown /\ thPc[t] = "idle" /\ thPc'[t] # "idle")
               => thPc'[t] \notin {"startChecked", "startNewJob", "startAdded"}
       /\ (shutDown /\ (\A t \in Threads : thPc[t] = "idle")
              /\ returned'.op = "Start" /\ returned'.err # "ErrCommand")
               => returned'.err = "ErrShutdown"]_vars


\* The job cgroups whose reaper gave up on the removal: the directory is
\* still there after job.wait returned.
RmdirFailed == {id \in cgroupDirs : reaperPc[id] = "done"}

\* C18: after StopAll has returned, no job cgroup directory and not the
\* parent cgroup directory exist, in every interleaving of Start, Stop,
\* natural exits and reapers with StopAll, provided no reaper's rmdir of a
\* job cgroup failed for good.
NoCgroupAfterStopAll ==
    (StopAllReturned /\ RmdirFailed = {})
        => (cgroupDirs = {} /\ ~parentDir)


\* The step in which a StopAll that did the shutdown returns.
StopAllReturns == saPc = "loop" /\ saPc' = "idle"

\* C19: StopAll deletes the parent cgroup and returns only after the reaper
\* of every job in the registry has finished: when it returns, every
\* registered job has Running = false, also a job that Start added just
\* before StopAll took c.mutex.
StopAllWaitsForReapers ==
    [][StopAllReturns =>
          \A id \in jobs' : reaperPc'[id] = "done" /\ ~status'[id].Running]_vars


\* C20: StopAll is idempotent: on a controller that is already shut down it
\* returns nil, sends no signal, does not wait for reapers, touches no cgroup
\* directory and leaves the controller state as it was.
StopAllIdempotent ==
    [][StopAllReturned =>
          /\ saPc' = "idle"
          /\ returned'.op = "StopAll" =>
                /\ returned'.err = "nil"
                /\ UNCHANGED <<ctlVars, jobVars, reaperVars, thVars, saVars,
                               clock>>]_vars

\* A second StopAll has returned nil although the parent cgroup, which the
\* first could not remove, is still there.
StopAllIdempotentWitness ==
    /\ StopAllReturned
    /\ returned.op = "StopAll"
    /\ returned.err = "nil"
    /\ parentDir
    /\ cgroupDirs # {}


\* C21: errors during StopAll never prevent shutdown completion: a StopAll
\* that has begun the shutdown eventually returns, also when job.stop() of a
\* running job failed with ErrJobStop and the process keeps running.
StopAllCompletes == (saPc = "loop") ~> (saPc = "idle")


----------------------------------------------------------------------------
(***************************************************************************)
(* Claims about the errors of Start and Stop.                              *)
(***************************************************************************)

\* C22: Start with an empty command returns ErrCommand and has no effect: no
\* id is consumed, no cgroup directory made, no process spawned, no job
\* registered; the check comes before the shutdown check, so the answer is
\* ErrCommand on a shut-down controller too.
EmptyCommandRejected ==
    [][(returned'.op = "Start" /\ returned'.cmd = EmptyCommand) =>
          /\ returned'.err = "ErrCommand"
          /\ UNCHANGED <<ctlVars, jobVars, reaperVars, thVars, saVars,
                         clock>>]_vars

\* A Start with an empty command has returned on a controller that StopAll
\* has shut down.
EmptyCommandRejectedWitness ==
    /\ returned.op = "Start"
    /\ returned.cmd = EmptyCommand
    /\ returned.err = "ErrCommand"
    /\ StopAllReturned
    /\ maxID = 1


\* C23: Stop by the owner on a job that is no longer running is a no-op that
\* returns nil: it sends no signal and leaves the job's status as it was, so
\* it may be repeated any number of times.
StopOfStoppedJobIsNoop ==
    [][(/\ returned'.op = "Stop"
        /\ returned'.id \in jobs
        /\ returned'.who = jobOwner[returned'.id]
        /\ ~status[returned'.id].Running) =>
          /\ returned'.err = "nil"
          /\ child' = child
          /\ childCode' = childCode
          /\ status' = status
          /\ UNCHANGED <<ctlVars, reaperVars>>]_vars

\* The owner's Stop of a reaped job has returned nil.
StopOfStoppedJobIsNoopWitness ==
    /\ returned.op = "Stop"
    /\ returned.err = "nil"
    /\ returned.id \in jobs
    /\ returned.who = jobOwner[returned.id]
    /\ ~status[returned.id].Running
    /\ status[returned.id].Stopped # ZeroTime


----------------------------------------------------------------------------
(***************************************************************************)
(* The gRPC service on top of the controller.                              *)
(***************************************************************************)

statusErrorNoOwnerCase(err) ==
    IF err = "nil" THEN "OK"
    ELSE IF err = "ErrJobNotFound" THEN "NotFound"
    ELSE "Internal"

\* statusError: the gRPC code of the error of Controller.Stop or
\* Controller.Status; a nil error is no error status.
statusError(err) ==
    IF err = "nil" THEN "OK"
    ELSE IF err = "ErrJobNotFound" THEN "NotFound"
    ELSE IF err = "ErrUnauthorized" THEN "PermissionDenied"
    ELSE "Internal"

\* Service.Start: the gRPC code it answers with, given the command of the
\* request and the error Controller.Start returns for it.
ServiceStartCode(command, err) ==
    IF command = EmptyCommand THEN "InvalidArgument"
    ELSE IF err = "nil" THEN "OK"
    ELSE IF err = "ErrCommand" THEN "InvalidArgument"
    ELSE "Internal"

\* The gRPC code of the handler whose controller call returned r.
RpcCode(r) ==
    IF r.op = "Start" THEN ServiceStartCode(r.cmd, r.err)
    ELSE statusError(r.err)

\* The table of the specification.
SpecCode(err) ==
    CASE err = "nil" -> "OK"
      [] err = "ErrCommand" -> "InvalidArgument"
      [] err = "ErrJobNotFound" -> "NotFound"
      [] err = "ErrUnauthorized" -> "PermissionDenied"
      [] OTHER -> "Internal"

\* C24: the RPC layer maps every core error to a status code: ErrCommand to
\* InvalidArgument, ErrJobNotFound to NotFound, ErrUnauthorized to
\* PermissionDenied, every other error to Internal, and a successful call to
\* no error status.
RpcCodeOfEveryError ==
    returned.op \in {"Start", "Stop", "Status"}
        => RpcCode(returned) = SpecCode(returned.err)

\* A Stop by someone who is not the owner has been answered.
RpcCodeOfEveryErrorWitness ==
    /\ returned.op = "Stop"
    /\ returned.err = "ErrUnauthorized"
    /\ RpcCode(returned) = "PermissionDenied"


\* C25: the Logs RPC streams: a call that reaches Service.Logs is answered
\* with the job's output as chunk messages and the end of the stream, not
\* with Unimplemented.
LogsRpcStreams ==
    (rpc.method = "Logs" /\ rpc.handled) => rpc.code # "Unimplemented"


\* C26: on the server built by NewServer every unary and streaming handler
\* runs with the owner set to the common name of the caller's first peer
\* certificate; without a peer, TLS info or certificates the call is
\* rejected as Unauthenticated and the handler is not invoked.
OwnerIsPeerCommonName ==
    rpc.method # "none" =>
        IF rpc.peer.kind = "tls" /\ Len(rpc.peer.certs) > 0
        THEN rpc.handled /\ rpc.owner = rpc.peer.certs[1]
        ELSE ~rpc.handled /\ rpc.code = "Unauthenticated"

\* A streaming call from a peer with two certificates of different common
\* names has reached the handler.
OwnerIsPeerCommonNameWitness ==
    /\ rpc.method = "Logs"
    /\ rpc.handled
    /\ Len(rpc.peer.certs) = 2
    /\ rpc.peer.certs[1] # rpc.peer.certs[2]
    /\ rpc.owner = rpc.peer.certs[1]


\* C27: a Stop that races with the job's termination succeeds: when the
\* child has exited but the reaper has not yet set Running to false and the
\* kill does not fail for another reason, Stop returns nil and leaves the
\* child's own termination as it was, so the exit code the reaper records
\* is the child's and not TerminatedBySignal.
StopRacingExitSucceeds ==
    /\ [][\A t \in Threads :
            (/\ StopJob(t, FALSE)
             /\ child[thJob[t]] = "exited"
             /\ status[thJob[t]].Running) =>
               /\ returned'.err = "nil"
               /\ child' = child
               /\ childCode' = childCode]_vars
    /\ [](\A id \in JobIds :
            (child[id] = "exited" /\ reaperPc[id] \in {"cleanup", "done"}) =>
               /\ status[id].ExitCode # TerminatedBySignal
               /\ waitErr[id] # "other" => status[id].ExitCode = childCode[id])

\* The owner's Stop has returned nil for a job whose child had exited with
\* status 1 while its reaper was still in cmd.Wait.
StopRacingExitSucceedsWitness ==
    /\ returned.op = "Stop"
    /\ returned.err = "nil"
    /\ returned.id \in jobs
    /\ child[returned.id] = "exited"
    /\ childCode[returned.id] = 1
    /\ reaperPc[returned.id] = "wait"
    /\ status[returned.id].Running


----------------------------------------------------------------------------
(***************************************************************************)
(* Claims about the status of a reaped job and about j.mutex.              *)
(***************************************************************************)

\* C28: reaped is terminal and the status is frozen: a Status snapshot is
\* the job's status, and once the status of a job has Running = false it
\* keeps its Running, ExitCode, Started and Stopped values whatever Stop,
\* Status or StopAll calls follow; Running never goes back to true.
ReapedStatusFrozen ==
    /\ []((returned.op = "Status" /\ returned.err = "nil")
             => returned.st = status[returned.id])
    /\ [][\A id \in JobIds :
            (child[id] # "none" /\ ~status[id].Running)
               => status'[id] = status[id]]_vars

\* Status has returned the snapshot of a reaped job after StopAll.
ReapedStatusFrozenWitness ==
    /\ returned.op = "Status"
    /\ returned.err = "nil"
    /\ ~returned.st.Running
    /\ returned.st.Stopped # ZeroTime
    /\ StopAllReturned


\* C29: lock discipline: j.mutex is held only around status updates and
\* snapshot reads; the reaper does not hold it while it writes cgroup.kill
\* or while the retrying cgroup delete sleeps, so a Status or Stop on the job
\* is not delayed by the cgroup cleanup.
ReaperCleanupWithoutMutex ==
    \A id \in JobIds : reaperPc[id] = "cleanup" => jMutex[id] = "free"


----------------------------------------------------------------------------
(***************************************************************************)
(* Claims about the creation of a job cgroup.                              *)
(***************************************************************************)

\* A write of a limit file fails in the last call.
LimitWriteFails ==
    cg.sys.mkdirOk /\ cg.sys.failAt \in 1..Len(CgroupWrites(cg.limits))

\* C30: job cgroup creation rolls back on a write failure: when writing
\* cpu.max, memory.max or an io.max entry fails, the remaining limits are not
\* written, the directory just created is deleted (unless the removal
\* itself fails), ErrCgroup is returned and no process is spawned.
CgroupWriteFailureRollsBack ==
    LimitWriteFails =>
        /\ cg.res.err = "ErrCgroup"
        /\ cg.res.written = SubSeq(CgroupWrites(cg.limits), 1, cg.sys.failAt - 1)
        /\ cg.sys.rmOk => ~cg.res.dir
        /\ ~cg.res.spawned

\* The write of the second io.max entry has failed after cpu.max, memory.max
\* and the first entry were written, and the directory is gone.
CgroupWriteFailureRollsBackWitness ==
    /\ LimitWriteFails
    /\ cg.res.err = "ErrCgroup"
    /\ cg.res.written = <<"cpu.max", "memory.max", "io.max">>
    /\ cg.limits.io = 2
    /\ ~cg.res.dir


\* C31: every cgroup directory the core creates is deleted by the core: when
\* the start of a command fails after the job cgroup directory was made (a
\* limit write, the open of the directory or the spawn failed) and rmdir
\* works, the directory no longer exists when Start returns.
FailedStartRemovesCgroup ==
    (cg.res.err \notin {"none", "nil"} /\ cg.sys.mkdirOk /\ cg.sys.rmOk)
        => ~cg.res.dir


----------------------------------------------------------------------------
(***************************************************************************)
(* Claims about the reaper's cleanup.                                      *)
(***************************************************************************)

\* C32: the retrying cgroup delete ends after at most 3 attempts in all: it
\* stops at the first success, stops without retrying at the first failure
\* that is not EBUSY, retries only after EBUSY, and on exhaustion gives up
\* with the directory in place and job.wait returning as usual.
RetryDeleteBounded ==
    /\ Len(rp.attempts) <= DeleteRetries
    /\ \A k \in 1..(Len(rp.attempts) - 1) : rp.attempts[k] = "EBUSY"
    /\ (rp.attempts # <<>> /\ rp.attempts[Len(rp.attempts)] # "EBUSY")
          => rp.pc = "returned"
    /\ Len(rp.attempts) = DeleteRetries => rp.pc \in {"sleep", "returned"}
    /\ rp.pc = "returned" =>
          /\ rp.attempts # <<>>
          /\ rp.mutex = "free"
          /\ rp.dir <=> rp.attempts[Len(rp.attempts)] \in {"EBUSY", "other"}
          /\ rp.attempts[Len(rp.attempts)] = "EBUSY"
                => Len(rp.attempts) = DeleteRetries

\* The delete has given up after three EBUSY failures; the directory is
\* still there and job.wait has returned.
RetryDeleteBoundedWitness ==
    /\ rp.pc = "returned"
    /\ rp.attempts = <<"EBUSY", "EBUSY", "EBUSY">>
    /\ rp.dir


\* The order of the reaper's operations: the k-th is the wait, the status
\* update, the cgroup.kill write, and from the fourth on an rmdir.
ReapOpAt(k) ==
    IF k = 1 THEN "wait"
    ELSE IF k = 2 THEN "status"
    ELSE IF k = 3 THEN "cgroup.kill"
    ELSE "rmdir"

\* C33: reap ordering: the reaper of a job runs once and does, in this
\* order, the wait for the child, the status update, the write of
\* cgroup.kill and the retrying delete; cgroup.kill is written after a
\* natural exit as after a Stop, never before the child has been waited for,
\* and a failed cgroup.kill write does not prevent the delete.
ReapOrder ==
    /\ [](/\ \A k \in 1..Len(rp.ops) : rp.ops[k] = ReapOpAt(k)
          /\ rp.ops # <<>> => rp.child \in {"exited", "killed"}
          /\ rp.pc = "returned" =>
                /\ Len(rp.ops) >= 3
                /\ rp.attempts # <<>>)
    /\ [][rp.pc = "returned" => rp'.ops = rp.ops /\ rp'.pc = "returned"]_vars

\* After a natural exit the write of cgroup.kill failed and the directory
\* was removed all the same.
ReapOrderWitness ==
    /\ rp.pc = "returned"
    /\ rp.child = "exited"
    /\ ~rp.killOk
    /\ rp.ops = <<"wait", "status", "cgroup.kill", "rmdir">>
    /\ ~rp.dir


\* A call of newJobCgroup whose writes were all made.
AllLimitsWritten == cg.res.err \in {"nil", "openErr", "ErrCommand"}

\* C34: for every value of the unsigned 64-bit memory_kib, memory.max is
\* written iff memory_kib > 0 and what is written is the decimal of
\* memory_kib * 1024 (1024000 for 1000) without wrap-around; with
\* memory_kib = 0 and cpus = 0 neither memory.max nor cpu.max is written.
MemoryMaxIsProduct ==
    AllLimitsWritten =>
        /\ (\E k \in 1..Len(cg.res.written) : cg.res.written[k] = "memory.max")
              <=> ~IsZero(cg.limits.mem)
        /\ \A k \in 1..Len(cg.res.written) :
              cg.res.written[k] = "memory.max" =>
                 cg.res.contents[k]
                    = <<FormatLimbs(ExactMul(cg.limits.mem, 1024)), "\n">>
        /\ (cg.limits.mem = <<1000, 0, 0, 0>>) =>
              \E k \in 1..Len(cg.res.written) :
                 /\ cg.res.written[k] = "memory.max"
                 /\ cg.res.contents[k] = <<<<1, 0, 2, 4, 0, 0, 0>>, "\n">>
        /\ (IsZero(cg.limits.mem) /\ cg.limits.cpus = 0) =>
              \A k \in 1..Len(cg.res.written) :
                 cg.res.written[k] \notin {"memory.max", "cpu.max"}


\* C35: a status returned by Status is an independent value: an assignment
\* to a field of a returned status or to an element of its arguments, or to
\* the argument list passed to Start after Start returned, does not change
\* what later Status calls for the job return (the job keeps running, so
\* every Status call returns what the first returned).
SnapshotIndependent ==
    \A k \in 1..Len(sn.results) : sn.results[k] = sn.results[1]


\* Reader r is parked: its Read waits in its select and its slot is in
\* followers.
Parked(r) == rdPc[r] = "select" /\ r \in followers

\* C36: every Read returns once something happens: a reader parked as a
\* follower gets the next chunk the producer writes, EOF when the producer
\* closes, or returns when its cancel signal fires, and no reader stays in
\* its Read for ever after the producer has closed, with a dispatcher loop
\* that is scheduled fairly.
ParkedReadReturns ==
    /\ \A r \in Readers :
          /\ (Parked(r) /\ prodPc = "sending") ~> (rdPc[r] = "idle")
          /\ (Parked(r) /\ ctxDone[r]) ~> (rdPc[r] = "idle")
          /\ (rdPc[r] \in {"sendReq", "select", "sendDone"}
                 /\ prodPc = "closed") ~> (rdPc[r] = "idle")
    /\ [][\A r \in Readers :
            (rdPc[r] \in {"select", "sendDone"} /\ rdPc'[r] = "idle") =>
                \/ ret'[r].err = "nil" /\ got'[r] # got[r]
                \/ ret'[r].err = "EOF" /\ ~inputOpen
                \/ ret'[r].err = "ctx" /\ ctxDone[r]]_vars

\* A reader made before the close of a producer that wrote nothing, with no
\* cancel signal, has returned EOF from its Read.
ParkedReadReturnsWitness ==
    /\ ret["r1"].err = "EOF"
    /\ ~late["r1"]
    /\ ~ctxDone["r1"]
    /\ fullLog = <<>>
    /\ rdPc["r1"] = "idle"


\* C37: the server confirms the presence of a common name: a caller whose
\* verified certificate has an empty common name is rejected and never
\* becomes the owner of a job, so that no two clients share the owner "".
EmptyCommonNameRejected ==
    /\ rpc.handled => rpc.owner # NoCommonName
    /\ (/\ rpc.method # "none"
        /\ rpc.peer.kind = "tls"
        /\ Len(rpc.peer.certs) > 0
        /\ rpc.peer.certs[1] = NoCommonName) =>
           ~rpc.handled /\ rpc.code = "Unauthenticated"


\* C38: the dispatcher's state invariant: every slot in followers belongs
\* to a reader whose Read is in progress and has not seen EOF, whose cursor
\* equals len(fullLog), whose slot is open and empty and has no second
\* request on the way; fullLog only grows by appending; and once the
\* dispatcher has marked the producer closed, followers is empty and stays
\* empty.
DispatcherStateInvariant ==
    /\ [](\A r \in followers :
            /\ rdPc[r] \in {"select", "sendDone"}
            /\ ~respNil[r]
            /\ startIdx[r] = Len(fullLog)
            /\ ~respClosed[r]
            /\ respCh[r] = <<>>)
    /\ [](~inputOpen => followers = {})
    /\ [][IsPrefix(fullLog, fullLog') /\ (~inputOpen => ~inputOpen')]_vars

\* Both readers follow at the end of a log that is not empty, one of them
\* cancelled and on its way to hand its slot back.
DispatcherStateInvariantWitness ==
    /\ followers = Readers
    /\ fullLog # <<>>
    /\ rdPc["r1"] = "sendDone"
    /\ rdPc["r2"] = "select"

\* C39: the dispatcher never panics on its channels: under every
\* interleaving of writes, the close of the producer, requests and
\* cancellations no slot is closed twice and nothing is sent on a closed
\* slot.
DispatcherNeverPanics ==
    /\ [](dispState # "panic")
    /\ [][\A r \in Readers :
            respClosed[r] => respClosed'[r] /\ respCh'[r] = respCh[r]]_vars

\* The slot of a cancelled follower was closed in the doneCh case, and the
\* dispatcher has since handled a write and the close of the producer.
DispatcherNeverPanicsWitness ==
    /\ respClosed["r1"]
    /\ ctxDone["r1"]
    /\ startIdx["r1"] < Len(fullLog)
    /\ ~inputOpen
    /\ "r2" \notin followers
    /\ respClosed["r2"]
    /\ dispState = "run"


\* C40: the controller is deadlock-free: the registry mutex and the job
\* mutexes are taken in the order registry then job, no reaper needs the
\* registry mutex, and every call that waits for a mutex acquires it in the
\* end, a killed child being a terminated child.
ControllerDeadlockFree ==
    /\ [](\A id \in JobIds :
            /\ (reaperPc[id] = "lock" /\ jMutex[id] = "free") =>
                  ENABLED ReaperUpdate(id)
            /\ reaperPc[id] = "cleanup" => ENABLED ReaperCleanup(id, TRUE))
    /\ [][\A id \in JobIds :
            reaperPc'[id] # reaperPc[id] => cMutex' = cMutex]_vars
    /\ \A t \in Callers1 :
          /\ (thPc[t] = "startNewJob") ~> (thPc[t] = "startAdded")
          /\ (thPc[t] \in {"stopGot", "statusGot"}) ~> (thPc[t] = "idle")
    /\ (saPc = "loop" /\ saTodo # {}) ~> (saTodo = {})

====
